---------------------------- MODULE Spec2Model ----------------------------
(***************************************************************************)
(* Model of the candidate selection and travel-time estimation subsystem   *)
(* of tokyo-gourmet (backend/recommender.py, backend/routes_client.py,     *)
(* backend/site_generator.py, backend/sheets_client.py,                    *)
(* backend/places_client.py, backend/run_weekly.py).                       *)
(*                                                                         *)
(* Conventions.  A Python dict is a function whose DOMAIN is the set of    *)
(* keys present; d.get(k, default) is Get(d, k, default).  A JSON null /   *)
(* Python None in a numeric field is the number Null.  Times are whole     *)
(* days; distances are whole metres; durations are whole seconds.  Float   *)
(* arithmetic is modelled exactly on rationals, Python's round() included  *)
(* (round-half-to-even).                                                   *)
(***************************************************************************)
EXTENDS Integers, Sequences, FiniteSets, TLC

VARIABLES
    fArgs,      \* filter_candidates: the arguments of the call
    fRet,       \* filter_candidates: the returned list
    fDone,      \* filter_candidates has returned
    pArgs,      \* weighted_random_pick: the arguments of the call
    pRet,       \* weighted_random_pick: the outcome of the call
    pDone,      \* weighted_random_pick has returned or raised
    cacheFile,  \* the persisted travel cache (station_cache.json)
    clock,      \* the clock, in days
    ti,         \* the latest get_travel_info call: arguments, cache file
                \* before it, and outcome
    eArgs,      \* compute_travel_time: the arguments and the oracle's answer
    eRet,       \* compute_travel_time: the outcome of the call
    eDone,      \* compute_travel_time has returned or raised
    mArgs,      \* merge_visited_sources: the stores it reads
    mRet,       \* merge_visited_sources: the returned set
    mDone,      \* merge_visited_sources has returned
    hArgs,      \* load_recent_history: the history file, weeks and the time
    hRet,       \* load_recent_history: the returned set
    hDone,      \* load_recent_history has returned
    apiKey,     \* GOOGLE_API_KEY is set in the environment
    credentials,    \* the OAuth token or client-secrets file of Sheets and Gmail exists
    cfg,        \* config.yaml as loaded by load_config
    visitedFile,    \* data/visited.json
    historyFile,    \* data/history.json
    archiveFile,    \* frontend/public/data/archive.json
    currentFile,    \* frontend/public/data/current.json
    historyWritten, \* for each record of historyFile, the day it was written
    pc,         \* position of main: "idle" between runs, else the next step
    runs,       \* number of runs started
    exit,       \* how the latest run ended: "none", "ok", "abort", "crash"
    startedAt,  \* the day the current run started
    loadedAt,   \* the day the current run called load_recent_history
    sinks,      \* what became of the email and of the sheet sync of the
                \* latest run: "none", "sent" / "synced", "failed"
    storesAtStart,  \* history, archive and current.json as the latest run
                    \* found them
    main_visited_ids,    \* main's local variables
    main_recent_ids,
    main_candidates,
    main_travel_data,
    main_idx,        \* position of the step 4 loop in main_candidates
    main_filtered,
    main_selected,
    main_generated_at,   \* current_data["generated_at"]
    disk,       \* the four persisted stores as files on disk
    dRet,       \* the latest store operation: what it read, returned, wrote
    sArgs,      \* search_all_restaurants: the responses and max_pages_per_query
    sRet,       \* search_all_restaurants: the returned list, or raised
    sDone       \* search_all_restaurants has returned or raised

vars == <<fArgs, fRet, fDone, pArgs, pRet, pDone, cacheFile, clock, ti, eArgs, eRet, eDone, mArgs, mRet, mDone, hArgs, hRet, hDone, apiKey, credentials, cfg, visitedFile, historyFile, archiveFile, currentFile, historyWritten, pc, runs, exit, startedAt, loadedAt, sinks, storesAtStart, main_visited_ids, main_recent_ids, main_candidates, main_travel_data, main_idx, main_filtered, main_selected, main_generated_at, disk, dRet, sArgs, sRet, sDone>>

cacheVars == <<cacheFile, clock, ti>>
estVars == <<eArgs, eRet, eDone>>
mergeVars == <<mArgs, mRet, mDone>>
recentVars == <<hArgs, hRet, hDone>>
diskVars == <<disk, dRet>>
searchVars == <<sArgs, sRet, sDone>>
envVars == <<apiKey, credentials, cfg, visitedFile>>
storeVars == <<historyFile, archiveFile, currentFile, historyWritten>>
localVars == <<main_visited_ids, main_recent_ids, main_candidates, main_travel_data, main_idx, main_filtered, main_selected, main_generated_at>>
runVars == <<envVars, storeVars, pc, runs, exit, startedAt, loadedAt, sinks, storesAtStart, localVars>>

filterVars == <<fArgs, fRet, fDone>>
pickVars == <<pArgs, pRet, pDone>>

-----------------------------------------------------------------------------
(* Generic helpers *)

\* dict.get(k, default)
Get(d, k, default) == IF k \in DOMAIN d THEN d[k] ELSE default

\* None in a numeric field
Null == -1

\* All sequences over S of length 0..n
SeqsUpTo(S, n) == UNION { [1..k -> S] : k \in 0..n }

\* The elements of a sequence
Range(s) == { s[i] : i \in DOMAIN s }

\* Python round(n/d) for n >= 0, d > 0: nearest integer, ties to even
RoundHalfEven(n, d) ==
    LET q == n \div d
        r == 2 * (n % d)
    IN  IF r < d THEN q
        ELSE IF r > d THEN q + 1
        ELSE IF q % 2 = 0 THEN q ELSE q + 1

-----------------------------------------------------------------------------
(* recommender.filter_candidates *)

\* The body of the loop over places: TRUE iff the place reaches
\* filtered.append(place), FALSE iff one of the `continue`s is taken.
FilterKeeps_NoRecent(place, visited_ids, recent_ids, min_reviews, max_travel_minutes, travel_info) ==
    LET place_id == Get(place, "id", "")
        review_count == Get(place, "userRatingCount", 0)
    IN  IF place_id \in visited_ids THEN FALSE
        ELSE IF review_count < min_reviews THEN FALSE
        ELSE IF place_id \in DOMAIN travel_info
                /\ LET travel_mins ==
                         Get(travel_info[place_id], "travel_time_minutes", Null)
                   IN  travel_mins # Null /\ travel_mins > max_travel_minutes
             THEN FALSE
        ELSE TRUE

FilterKeeps_TravelGe(place, visited_ids, recent_ids, min_reviews, max_travel_minutes, travel_info) ==
    LET place_id == Get(place, "id", "")
        review_count == Get(place, "userRatingCount", 0)
    IN  IF place_id \in visited_ids THEN FALSE
        ELSE IF place_id \in recent_ids THEN FALSE
        ELSE IF review_count < min_reviews THEN FALSE
        ELSE IF place_id \in DOMAIN travel_info
                /\ LET travel_mins ==
                         Get(travel_info[place_id], "travel_time_minutes", Null)
                   IN  travel_mins # Null /\ travel_mins >= max_travel_minutes
             THEN FALSE
        ELSE TRUE

FilterKeeps(place, visited_ids, recent_ids, min_reviews, max_travel_minutes, travel_info) ==
    LET place_id == Get(place, "id", "")
        review_count == Get(place, "userRatingCount", 0)
    IN  IF place_id \in visited_ids THEN FALSE
        ELSE IF place_id \in recent_ids THEN FALSE
        ELSE IF review_count < min_reviews THEN FALSE
        ELSE IF place_id \in DOMAIN travel_info
                /\ LET travel_mins ==
                         Get(travel_info[place_id], "travel_time_minutes", Null)
                   IN  travel_mins # Null /\ travel_mins > max_travel_minutes
             THEN FALSE
        ELSE TRUE

\* travel_info = travel_info or {}
EmptyDict == [k \in {} |-> Null]

\* filter_candidates(places, visited_ids, recent_ids, min_reviews,
\*                   max_travel_minutes, travel_info): the for loop, building
\* `filtered` by append in input order.
FilterCandidates(places, visited_ids, recent_ids, min_reviews, max_travel_minutes, travel_info) ==
    LET RECURSIVE Loop(_, _)
        Loop(i, filtered) ==
            IF i > Len(places) THEN filtered
            ELSE IF FilterKeeps(places[i], visited_ids, recent_ids, min_reviews,
                                max_travel_minutes, travel_info)
                 THEN Loop(i + 1, Append(filtered, places[i]))
                 ELSE Loop(i + 1, filtered)
    IN  Loop(1, <<>>)

-----------------------------------------------------------------------------
(* recommender.weighted_random_pick *)

\* sum of a sequence of numbers
RECURSIVE SumSeq(_)
SumSeq(s) == IF s = <<>> THEN 0 ELSE Head(s) + SumSeq(Tail(s))

\* itertools.accumulate(weights)
CumWeights(weights) == [i \in DOMAIN weights |-> SumSeq(SubSeq(weights, 1, i))]

\* list.pop(pos), pos 1-based
PopAt(s, pos) == SubSeq(s, 1, pos - 1) \o SubSeq(s, pos + 1, Len(s))

\* bisect.bisect_right(cum, x, 0, hi) as a 1-based position: one more than the
\* number of the first hi elements that are <= x
Bisect(cum, x, hi) == Cardinality({ i \in 1..hi : cum[i] <= x }) + 1

\* random.choices(population, weights=weights, k=1)[0] as the set of positions
\* of `population` it can return; the empty set stands for the ValueError it
\* raises when the total weight is not positive.  random() * total ranges over
\* [0, total); with whole weights the whole numbers of that interval reach
\* every position a real number reaches.
Choices(weights) ==
    LET cum == CumWeights(weights)
        total == cum[Len(weights)]
    IN  IF total <= 0 THEN {}
        ELSE { Bisect(cum, x, Len(weights) - 1) : x \in 0..(total - 1) }

\* c.get("rating", 4.0) ** 2; ratings are whole stars, the default is 4
PickWeight(c) == Get(c, "rating", 4) * Get(c, "rating", 4)

\* The for loop of weighted_random_pick from a given iteration on: the set of
\* ways it can end.  raised: random.choices raised ValueError; idx: the
\* chosen_idx of every iteration so far (1-based positions of candidates).
RECURSIVE PickLoop(_, _, _, _)
PickLoop(remaining, remaining_weights, todo, idx) ==
    IF todo = 0 \/ remaining = <<>>
    THEN { [raised |-> FALSE, idx |-> idx] }
    ELSE IF Choices(remaining_weights) = {}
    THEN { [raised |-> TRUE, idx |-> idx] }
    ELSE UNION { PickLoop(PopAt(remaining, pos), PopAt(remaining_weights, pos),
                          todo - 1, Append(idx, remaining[pos]))
                 : pos \in Choices(remaining_weights) }

\* weighted_random_pick(candidates, count): the set of its possible outcomes.
\* selected is the returned list (meaningless when raised).
WeightedRandomPick(candidates, count) ==
    IF Len(candidates) <= count
    THEN { [raised |-> FALSE, idx |-> [i \in 1..Len(candidates) |-> i],
            selected |-> candidates] }
    ELSE LET weights == [i \in 1..Len(candidates) |-> PickWeight(candidates[i])]
             remaining == [i \in 1..Len(candidates) |-> i]
         IN  { [raised |-> o.raised, idx |-> o.idx,
                selected |-> [k \in 1..Len(o.idx) |-> candidates[o.idx[k]]]]
               : o \in PickLoop(remaining, weights, count, <<>>) }

-----------------------------------------------------------------------------
(* routes_client.compute_travel_time *)

\* Responses of the routing oracle (requests.post + raise_for_status + json):
\* kind "error" is a timeout or a non-2xx status, which raises; otherwise
\* `routes` is data.get("routes", []), each route a dict that may lack
\* "duration" (seconds; "1200s" in the wire format) or "distanceMeters".
OracleError == [kind |-> "error"]
OracleRoutes(routes) == [kind |-> "ok", routes |-> routes]

\* if distance_km <= 1.5, in metres
IsWalkable_Strict(distance_m) == distance_m < 1500

IsWalkable(distance_m) == distance_m <= 1500

\* round(distance_km / 0.08)
WalkMinutes(distance_m) == RoundHalfEven(distance_m, 80)

\* int(distance_km * 3), truncating
FallbackMinutes_Floor(distance_m) == (3 * distance_m) \div 1000

\* round(distance_km * 3)
FallbackMinutes(distance_m) == RoundHalfEven(3 * distance_m, 1000)

\* round(drive_seconds / 60 * TRANSIT_MULTIPLIER), TRANSIT_MULTIPLIER = 1.5
TransitMinutes(drive_seconds) == RoundHalfEven(drive_seconds * 3, 60 * 2)

\* The fare schedule of compute_travel_time on the road distance in metres:
\* the branch value rounded to a whole yen, then round(fare / 10) * 10.
FareEstimate(distance_m) ==
    LET fare_estimate ==
            IF distance_m <= 5000 THEN 180
            ELSE IF distance_m <= 15000
                 THEN RoundHalfEven(150 * 1000 + distance_m * 15, 1000)
            ELSE IF distance_m <= 30000
                 THEN RoundHalfEven(200 * 1000 + distance_m * 12, 1000)
            ELSE RoundHalfEven(250 * 1000 + distance_m * 10, 1000)
    IN  RoundHalfEven(fare_estimate, 10) * 10

\* compute_travel_time with the fallback branch returning no time
ComputeTravelTime_NullFallback(distance_m, has_key, oracle) ==
    IF IsWalkable(distance_m)
    THEN [raised |-> FALSE, called |-> FALSE,
          value |-> [travel_time_minutes |-> WalkMinutes(distance_m),
                     travel_cost_yen |-> 0,
                     travel_summary |-> <<"walk", WalkMinutes(distance_m)>>]]
    ELSE IF ~has_key
    THEN [raised |-> TRUE, called |-> FALSE, value |-> EmptyDict]
    ELSE IF oracle.kind = "error"
    THEN [raised |-> TRUE, called |-> TRUE, value |-> EmptyDict]
    ELSE IF oracle.routes = <<>>
    THEN [raised |-> FALSE, called |-> TRUE,
          value |-> [travel_time_minutes |-> Null,
                     travel_cost_yen |-> Null,
                     travel_summary |-> <<"estimate", FallbackMinutes(distance_m)>>]]
    ELSE LET route == oracle.routes[1]
             drive_seconds == Get(route, "duration", 0)
             distance_road_m == Get(route, "distanceMeters", 0)
         IN  [raised |-> FALSE, called |-> TRUE,
              value |-> [travel_time_minutes |-> TransitMinutes(drive_seconds),
                         travel_cost_yen |-> FareEstimate(distance_road_m),
                         travel_summary |->
                             <<"transit", TransitMinutes(drive_seconds)>>]]


\* compute_travel_time for a destination at straight-line distance distance_m
\* (the value of _haversine_km, in metres), with the API key set or not and
\* the oracle answering `oracle` if asked.
\*   raised: an exception leaves the function (get_api_key's ValueError or the
\*           oracle's failure); called: requests.post was executed;
\*   value: the returned dict.
ComputeTravelTime(distance_m, has_key, oracle) ==
    IF IsWalkable(distance_m)
    THEN [raised |-> FALSE, called |-> FALSE,
          value |-> [travel_time_minutes |-> WalkMinutes(distance_m),
                     travel_cost_yen |-> 0,
                     travel_summary |-> <<"walk", WalkMinutes(distance_m)>>]]
    ELSE IF ~has_key
    THEN [raised |-> TRUE, called |-> FALSE, value |-> EmptyDict]
    ELSE IF oracle.kind = "error"
    THEN [raised |-> TRUE, called |-> TRUE, value |-> EmptyDict]
    ELSE IF oracle.routes = <<>>
    THEN [raised |-> FALSE, called |-> TRUE,
          value |-> [travel_time_minutes |-> FallbackMinutes(distance_m),
                     travel_cost_yen |-> Null,
                     travel_summary |-> <<"estimate", FallbackMinutes(distance_m)>>]]
    ELSE LET route == oracle.routes[1]
             drive_seconds == Get(route, "duration", 0)
             distance_road_m == Get(route, "distanceMeters", 0)
         IN  [raised |-> FALSE, called |-> TRUE,
              value |-> [travel_time_minutes |-> TransitMinutes(drive_seconds),
                         travel_cost_yen |-> FareEstimate(distance_road_m),
                         travel_summary |->
                             <<"transit", TransitMinutes(drive_seconds)>>]]

-----------------------------------------------------------------------------
(* routes_client: the travel cache *)

\* cached_at of an entry: a day number, or NoStamp for a missing or empty
\* stamp, or BadStamp for a string datetime.fromisoformat does not accept.
NoStamp == -1
BadStamp == -2

\* The cache file: readable is FALSE for a missing or malformed file.
\* _load_cache
LoadCache(file) == IF file.readable THEN file.data ELSE EmptyDict

\* _save_cache
SaveCache(cache) == [readable |-> TRUE, data |-> cache]

\* _is_cache_valid(entry, expiry_days) at time now: "True", "False", or
\* "ValueError" when fromisoformat raises.
IsCacheValid_NonStrict(entry, expiry_days, now) ==
    LET cached_at == Get(entry, "cached_at", NoStamp)
    IN  IF cached_at = NoStamp THEN "False"
        ELSE IF cached_at = BadStamp THEN "ValueError"
        ELSE IF now - cached_at <= expiry_days THEN "True" ELSE "False"

IsCacheValid(entry, expiry_days, now) ==
    LET cached_at == Get(entry, "cached_at", NoStamp)
    IN  IF cached_at = NoStamp THEN "False"
        ELSE IF cached_at = BadStamp THEN "ValueError"
        ELSE IF now - cached_at < expiry_days THEN "True" ELSE "False"

\* dict with key k set to v
DictSet(d, k, v) == [x \in DOMAIN d \cup {k} |-> IF x = k THEN v ELSE d[x]]

\* The cache-hit test of get_travel_info: place_id in cache, the entry valid,
\* and its travel_time_minutes not None.  "hit", "miss" or "raise".
CacheLookup_IgnoreNull(cache, place_id, expiry_days, now) ==
    IF place_id \notin DOMAIN cache THEN "miss"
    ELSE LET valid == IsCacheValid(cache[place_id], expiry_days, now)
         IN  IF valid = "ValueError" THEN "raise"
             ELSE IF valid = "True" THEN "hit"
             ELSE "miss"

CacheLookup(cache, place_id, expiry_days, now) ==
    IF place_id \notin DOMAIN cache THEN "miss"
    ELSE LET valid == IsCacheValid(cache[place_id], expiry_days, now)
         IN  IF valid = "ValueError" THEN "raise"
             ELSE IF valid = "True"
                     /\ Get(cache[place_id], "travel_time_minutes", Null) # Null
                  THEN "hit"
             ELSE "miss"

\* The miss path of get_travel_info once compute_travel_time has returned
\* `value`: stamp it, store it under place_id, save the whole cache.
StoreFresh_DropOthers(cache, place_id, value, now) ==
    SaveCache(DictSet(EmptyDict, place_id, DictSet(value, "cached_at", now)))

StoreFresh(cache, place_id, value, now) ==
    SaveCache(DictSet(cache, place_id, DictSet(value, "cached_at", now)))

\* get_travel_info(place_id, ..., cache_expiry_days) at time now on the cache
\* file `file`.
\*   path: "hit" (line 167), "miss" (lines 170-179) or "raise" (an exception
\*         left the function); ret: the returned dict; file: the cache file
\*   afterwards; est: compute_travel_time calls; oracle: requests.post calls;
\*   writes: _save_cache calls.
GetTravelInfo_WriteOnHit(file, place_id, distance_m, has_key, oracle, expiry_days, now) ==
    LET cache == LoadCache(file)
        look == CacheLookup(cache, place_id, expiry_days, now)
        result == ComputeTravelTime(distance_m, has_key, oracle)
    IN  IF look = "raise"
        THEN [path |-> "raise", ret |-> EmptyDict, file |-> file,
              est |-> 0, oracle |-> 0, writes |-> 0]
        ELSE IF look = "hit"
        THEN [path |-> "hit", ret |-> cache[place_id],
              file |-> StoreFresh(cache, place_id, cache[place_id], now),
              est |-> 0, oracle |-> 0, writes |-> 1]
        ELSE IF result.raised
        THEN [path |-> "raise", ret |-> EmptyDict, file |-> file,
              est |-> 1, oracle |-> IF result.called THEN 1 ELSE 0,
              writes |-> 0]
        ELSE [path |-> "miss",
              ret |-> DictSet(result.value, "cached_at", now),
              file |-> StoreFresh(cache, place_id, result.value, now),
              est |-> 1, oracle |-> IF result.called THEN 1 ELSE 0,
              writes |-> 1]

GetTravelInfo(file, place_id, distance_m, has_key, oracle, expiry_days, now) ==
    LET cache == LoadCache(file)
        look == CacheLookup(cache, place_id, expiry_days, now)
        result == ComputeTravelTime(distance_m, has_key, oracle)
    IN  IF look = "raise"
        THEN [path |-> "raise", ret |-> EmptyDict, file |-> file,
              est |-> 0, oracle |-> 0, writes |-> 0]
        ELSE IF look = "hit"
        THEN [path |-> "hit", ret |-> cache[place_id], file |-> file,
              est |-> 0, oracle |-> 0, writes |-> 0]
        ELSE IF result.raised
        THEN [path |-> "raise", ret |-> EmptyDict, file |-> file,
              est |-> 1, oracle |-> IF result.called THEN 1 ELSE 0,
              writes |-> 0]
        ELSE [path |-> "miss",
              ret |-> DictSet(result.value, "cached_at", now),
              file |-> StoreFresh(cache, place_id, result.value, now),
              est |-> 1, oracle |-> IF result.called THEN 1 ELSE 0,
              writes |-> 1]

-----------------------------------------------------------------------------
(* recommender.load_recent_history, site_generator.update_history,         *)
(* sheets_client.merge_visited_sources                                     *)

\* timedelta(weeks=1) in days
DaysPerWeek == 7

\* main calls load_recent_history(weeks=4)
RecentWeeks == 4

\* The history file: readable is FALSE for a missing or malformed file; weeks
\* is data.get("weeks", []), newest first, each record with its generated_at
\* (a day) and its restaurants (dicts with a place_id).
\* load_recent_history(weeks) at time now
\* load_recent_history without the cutoff test: every record contributes
LoadRecentHistory_AllRecords(file, weeks, now) ==
    IF ~file.readable THEN {}
    ELSE UNION { { file.weeks[k].restaurants[r].place_id :
                     r \in DOMAIN file.weeks[k].restaurants } : k \in DOMAIN file.weeks }

LoadRecentHistory_Strict(file, weeks, now) ==
    IF ~file.readable THEN {}
    ELSE LET cutoff == now - weeks * DaysPerWeek
         IN  UNION { { w.restaurants[r].place_id : r \in DOMAIN w.restaurants }
                     : w \in { file.weeks[k] : k \in { j \in DOMAIN file.weeks :
                                   file.weeks[j].generated_at > cutoff } } }

LoadRecentHistory(file, weeks, now) ==
    IF ~file.readable THEN {}
    ELSE LET cutoff == now - weeks * DaysPerWeek
         IN  UNION { { w.restaurants[r].place_id : r \in DOMAIN w.restaurants }
                     : w \in { file.weeks[k] : k \in { j \in DOMAIN file.weeks :
                                   file.weeks[j].generated_at >= cutoff } } }

\* the number of weeks update_archive keeps
ArchiveCap == 52

\* generate_current_json(restaurants, week_label) at time now: the data it
\* writes to current.json and returns
GenerateCurrentJson(restaurants, now) ==
    [generated_at |-> now, restaurants |-> restaurants]

\* update_archive without the truncation
UpdateArchive_NoCap(file, current_data) ==
    LET archive == IF file.readable THEN file.weeks ELSE <<>>
    IN  [readable |-> TRUE, weeks |-> <<current_data>> \o archive]

\* update_archive(current_data): insert at the front, keep the first 52
UpdateArchive(file, current_data) ==
    LET archive == IF file.readable THEN file.weeks ELSE <<>>
        inserted == <<current_data>> \o archive
    IN  [readable |-> TRUE,
         weeks |-> SubSeq(inserted, 1, IF Len(inserted) < ArchiveCap
                                       THEN Len(inserted) ELSE ArchiveCap)]

\* update_history(current_data): insert the week's record at the front
UpdateHistory(file, current_data) ==
    LET history == IF file.readable THEN file.weeks ELSE <<>>
        record == [generated_at |-> current_data.generated_at,
                   restaurants |->
                       [r \in DOMAIN current_data.restaurants |->
                           [place_id |-> current_data.restaurants[r].place_id]]]
    IN  [readable |-> TRUE, weeks |-> <<record>> \o history]

\* str(...).upper() on the marks that occur in the sheet
Upper(mark) ==
    IF mark = "true" THEN "TRUE" ELSE IF mark = "yes" THEN "YES" ELSE mark

\* the values of the "visited" column that mark a row as visited; "(circle)"
\* stands for the circle symbol
VisitedMarks == {"TRUE", "YES", "1", "(circle)"}

\* get_visited_from_sheet with every row taken, marked or not
GetVisitedFromSheet_AllRows(sheet) ==
    IF sheet.ok THEN { sheet.rows[k].place_id : k \in DOMAIN sheet.rows } ELSE {}

\* get_visited_from_sheet: the ids of the rows marked visited, or set() when
\* reading the sheet raises.  sheet.ok is FALSE when authenticate or a
\* gspread call raises; sheet.rows is worksheet.get_all_records().
GetVisitedFromSheet(sheet) ==
    IF sheet.ok
    THEN { sheet.rows[k].place_id :
             k \in { j \in DOMAIN sheet.rows :
                       Upper(Get(sheet.rows[j], "visited", "")) \in VisitedMarks } }
    ELSE {}

\* merge_visited_sources(spreadsheet_id).  visited_file.readable is FALSE for
\* a missing or malformed visited.json; visited_file.visited is its list.
MergeVisitedSources(visited_file, spreadsheet_id, sheet) ==
    LET local_ids == IF visited_file.readable
                     THEN { visited_file.visited[k].place_id :
                              k \in DOMAIN visited_file.visited }
                     ELSE {}
        sheet_ids == IF spreadsheet_id # "" THEN GetVisitedFromSheet(sheet) ELSE {}
    IN  local_ids \cup sheet_ids

-----------------------------------------------------------------------------
(* The persisted stores as files on disk: open(..., encoding="utf-8") and  *)
(* json.load inside try / except (FileNotFoundError, json.JSONDecodeError) *)

\* A file on disk is [kind, data].  kind is
\*   "missing"  no such file,
\*   "syntax"   text that is not JSON (empty, truncated, garbled),
\*   "bytes"    bytes that are not UTF-8 (a write cut inside a multi-byte
\*              character; the stores are written with ensure_ascii=False),
\*   "shape"    JSON that decodes to something other than a dict (a list),
\*   "ok"       a dict, whose content is data.
\* JsonLoad is the exception open / json.load raise, or "none".
JsonLoad(raw) ==
    IF raw.kind = "missing" THEN "FileNotFoundError"
    ELSE IF raw.kind = "syntax" THEN "JSONDecodeError"
    ELSE IF raw.kind = "bytes" THEN "UnicodeDecodeError"
    ELSE "none"

\* the exceptions the except clause of every loader names
CaughtOnLoad == {"FileNotFoundError", "JSONDecodeError"}

\* what a loader does with the file: "empty" (the except clause ran),
\* "data" (the dict was loaded), or "raise": the exception is not caught, or
\* the loaded value is not a dict and its first use (.get, ["weeks"],
\* item assignment) raises
LoadOutcome(raw) ==
    IF JsonLoad(raw) \in CaughtOnLoad THEN "empty"
    ELSE IF JsonLoad(raw) # "none" \/ raw.kind = "shape" THEN "raise"
    ELSE "data"

\* load_recent_history on the history file on disk
DiskLoadRecentHistory(raw, weeks, now) ==
    IF LoadOutcome(raw) = "raise"
    THEN [raised |-> TRUE, ids |-> {}, raw |-> raw]
    ELSE [raised |-> FALSE,
          ids |-> LoadRecentHistory([readable |-> LoadOutcome(raw) = "data",
                                     weeks |-> raw.data], weeks, now),
          raw |-> raw]

\* the local half of merge_visited_sources on visited.json on disk
DiskMergeVisitedSources(raw) ==
    IF LoadOutcome(raw) = "raise"
    THEN [raised |-> TRUE, ids |-> {}, raw |-> raw]
    ELSE [raised |-> FALSE,
          ids |-> MergeVisitedSources([readable |-> LoadOutcome(raw) = "data",
                                       visited |-> raw.data], "",
                                      [ok |-> FALSE, rows |-> <<>>]),
          raw |-> raw]

\* update_archive on archive.json on disk
DiskUpdateArchive(raw, current_data) ==
    IF LoadOutcome(raw) = "raise"
    THEN [raised |-> TRUE, ids |-> {}, raw |-> raw]
    ELSE [raised |-> FALSE, ids |-> {},
          raw |-> [kind |-> "ok",
                   data |-> UpdateArchive([readable |-> LoadOutcome(raw) = "data",
                                           weeks |-> raw.data], current_data).weeks]]

\* update_history on history.json on disk
DiskUpdateHistory(raw, current_data) ==
    IF LoadOutcome(raw) = "raise"
    THEN [raised |-> TRUE, ids |-> {}, raw |-> raw]
    ELSE [raised |-> FALSE, ids |-> {},
          raw |-> [kind |-> "ok",
                   data |-> UpdateHistory([readable |-> LoadOutcome(raw) = "data",
                                           weeks |-> raw.data], current_data).weeks]]

\* get_travel_info on the cache file on disk, for a place within walking
\* distance (no oracle call); ids is the set of places the call returned an
\* estimate for
DiskGetTravelInfo(raw, place_id, distance_m, expiry_days, now) ==
    IF LoadOutcome(raw) = "raise"
    THEN [raised |-> TRUE, ids |-> {}, raw |-> raw]
    ELSE LET res == GetTravelInfo([readable |-> LoadOutcome(raw) = "data",
                                   data |-> raw.data], place_id, distance_m,
                                  TRUE, OracleError, expiry_days, now)
         IN  [raised |-> res.path = "raise",
              ids |-> IF res.path = "raise" THEN {} ELSE {place_id},
              raw |-> IF res.writes = 0 THEN raw
                      ELSE [kind |-> "ok", data |-> res.file.data]]

-----------------------------------------------------------------------------
(* places_client.search_all_restaurants *)

\* the ids of a list of places
SeenIds(all_places) == { all_places[k].id : k \in DOMAIN all_places }

\* the for loop over the places of one page: a place is appended when its
\* id (place.get("id", "")) is non-empty and not seen yet
RECURSIVE AddPlaces(_, _)
AddPlaces(all_places, places) ==
    IF places = <<>> THEN all_places
    ELSE LET place_id == Get(Head(places), "id", "")
         IN  AddPlaces(IF place_id # "" /\ place_id \notin SeenIds(all_places)
                       THEN Append(all_places, Head(places))
                       ELSE all_places,
                       Tail(places))

\* search_all_restaurants(queries, ..., max_pages_per_query), responses[q][p]
\* being what search_restaurants does on page p of query q: kind "error" (it
\* raises) or "ok" with the places and whether a nextPageToken came with
\* them.  bound tells whether the local `places` has been assigned: the log
\* line after the page loop evaluates len(places) and raises when it has not.
\*   raised: an exception left the function; places: the returned list;
\*   requested: per query, the number of search_restaurants calls.
SearchAllRestaurants(responses, max_pages_per_query) ==
    LET RECURSIVE PageLoop(_, _, _, _)
        PageLoop(q, page, all_places, bound) ==
            IF page > max_pages_per_query
            THEN [all_places |-> all_places, bound |-> bound,
                  requested |-> max_pages_per_query]
            ELSE LET result == responses[q][page]
                 IN  IF result.kind = "error"
                     THEN [all_places |-> all_places, bound |-> bound,
                           requested |-> page]
                     ELSE IF ~result.next
                     THEN [all_places |-> AddPlaces(all_places, result.places),
                           bound |-> TRUE, requested |-> page]
                     ELSE PageLoop(q, page + 1,
                                   AddPlaces(all_places, result.places), TRUE)
        RECURSIVE QueryLoop(_, _, _, _)
        QueryLoop(q, all_places, bound, requested) ==
            IF q > Len(responses)
            THEN [raised |-> FALSE, places |-> all_places, requested |-> requested]
            ELSE LET pages == PageLoop(q, 1, all_places, bound)
                 IN  IF ~pages.bound
                     THEN [raised |-> TRUE, places |-> <<>>,
                           requested |-> Append(requested, pages.requested)]
                     ELSE QueryLoop(q + 1, pages.all_places, TRUE,
                                    Append(requested, pages.requested))
    IN  QueryLoop(1, <<>>, FALSE, <<>>)

-----------------------------------------------------------------------------
(* The idle value of each group of variables, for the specifications that *)
(* do not use the group                                                    *)

NoCall ==
    [called |-> FALSE, place_id |-> "", distance_m |-> 0, expiry_days |-> 0,
     oracle |-> OracleError, now |-> 0, preFile |-> [readable |-> FALSE, data |-> EmptyDict],
     res |-> [path |-> "raise", ret |-> EmptyDict,
              file |-> [readable |-> FALSE, data |-> EmptyDict],
              est |-> 0, oracle |-> 0, writes |-> 0]]

IdleFilter ==
    /\ fArgs = [places |-> <<>>, visited_ids |-> {}, recent_ids |-> {},
                min_reviews |-> 0, max_travel_minutes |-> 0,
                travel_info |-> EmptyDict]
    /\ fRet = <<>>
    /\ fDone = FALSE

IdlePick ==
    /\ pArgs = [candidates |-> <<>>, count |-> 0]
    /\ pRet = [raised |-> FALSE, idx |-> <<>>, selected |-> <<>>]
    /\ pDone = FALSE

IdleCache ==
    /\ cacheFile = [readable |-> FALSE, data |-> EmptyDict]
    /\ clock = 0
    /\ ti = NoCall

IdleEst ==
    /\ eArgs = [distance_m |-> 0, has_key |-> FALSE, oracle |-> OracleError]
    /\ eRet = [raised |-> FALSE, called |-> FALSE, value |-> EmptyDict]
    /\ eDone = FALSE

IdleMerge ==
    /\ mArgs = [visited_file |-> [readable |-> FALSE, visited |-> <<>>],
                spreadsheet_id |-> "", sheet |-> [ok |-> FALSE, rows |-> <<>>]]
    /\ mRet = {}
    /\ mDone = FALSE

IdleRecent ==
    /\ hArgs = [file |-> [readable |-> FALSE, weeks |-> <<>>], weeks |-> 0, now |-> 0]
    /\ hRet = {}
    /\ hDone = FALSE

NoOp == [done |-> FALSE, op |-> "", store |-> "", pre |-> [kind |-> "missing", data |-> <<>>], raised |-> FALSE, ids |-> {}]

IdleDisk ==
    /\ disk = [cache |-> [kind |-> "missing", data |-> EmptyDict],
               history |-> [kind |-> "missing", data |-> <<>>],
               archive |-> [kind |-> "missing", data |-> <<>>],
               visited |-> [kind |-> "missing", data |-> <<>>]]
    /\ dRet = NoOp

IdleSearch ==
    /\ sArgs = [responses |-> <<>>, max_pages_per_query |-> 0]
    /\ sRet = [raised |-> FALSE, places |-> <<>>, requested |-> <<>>]
    /\ sDone = FALSE

NoLocals ==
    /\ main_visited_ids = {}
    /\ main_recent_ids = {}
    /\ main_candidates = <<>>
    /\ main_travel_data = EmptyDict
    /\ main_idx = 0
    /\ main_filtered = <<>>
    /\ main_selected = <<>>
    /\ main_generated_at = 0

\* neither sink has been invoked
NoSinks == [email |-> "none", sheet |-> "none"]

\* the stores before any run has looked at them
NoStores ==
    [history |-> [readable |-> FALSE, weeks |-> <<>>],
     archive |-> [readable |-> FALSE, weeks |-> <<>>],
     current |-> [readable |-> FALSE, data |-> [generated_at |-> 0, restaurants |-> <<>>]]]

\* current.json before the first run: the file does not exist
NoCurrent == [readable |-> FALSE, data |-> [generated_at |-> 0, restaurants |-> <<>>]]

IdleRun ==
    /\ apiKey = FALSE
    /\ credentials = FALSE
    /\ cfg = [min_reviews |-> 0, max_travel_minutes |-> 0, pick_count |-> 0,
              expiry_days |-> 0, spreadsheet_id |-> ""]
    /\ visitedFile = [readable |-> FALSE, visited |-> <<>>]
    /\ historyFile = [readable |-> FALSE, weeks |-> <<>>]
    /\ archiveFile = [readable |-> FALSE, weeks |-> <<>>]
    /\ currentFile = NoCurrent
    /\ historyWritten = <<>>
    /\ pc = "off"
    /\ runs = 0
    /\ exit = "none"
    /\ startedAt = 0
    /\ loadedAt = 0
    /\ sinks = NoSinks
    /\ storesAtStart = NoStores
    /\ NoLocals

-----------------------------------------------------------------------------
(* Specification SpecFilter: filter_candidates applied to bounded inputs *)

MaxPlaces == 2

\* Candidate dicts as returned by the search: id and userRatingCount may be
\* absent from the dict.
FilterPlaces ==
    { [id |-> "a", userRatingCount |-> 50],
      [id |-> "a", userRatingCount |-> 49],
      [id |-> "b", userRatingCount |-> 120],
      [id |-> "b"],
      [userRatingCount |-> 50] }

\* travel_info entries: a time at / above the limit, a null time, no time key
FilterTravelEntries ==
    { [travel_time_minutes |-> 90], [travel_time_minutes |-> 91],
      [travel_time_minutes |-> Null], [travel_cost_yen |-> 0] }

FilterTravelInfos ==
    UNION { [D -> FilterTravelEntries] : D \in SUBSET {"a", "b"} }

InitFilter ==
    /\ fArgs \in [ places : SeqsUpTo(FilterPlaces, MaxPlaces),
                   visited_ids : SUBSET {"a", ""},
                   recent_ids : SUBSET {"b"},
                   min_reviews : {0, 50},
                   max_travel_minutes : {90},
                   travel_info : FilterTravelInfos ]
    /\ fRet = <<>>
    /\ fDone = FALSE
    /\ IdlePick /\ IdleCache /\ IdleEst /\ IdleMerge /\ IdleRecent /\ IdleRun /\ IdleDisk /\ IdleSearch

CallFilter ==
    /\ ~fDone
    /\ fDone' = TRUE
    /\ fRet' = FilterCandidates(fArgs.places, fArgs.visited_ids, fArgs.recent_ids,
                                fArgs.min_reviews, fArgs.max_travel_minutes,
                                fArgs.travel_info)
    /\ fArgs' = fArgs
    /\ UNCHANGED <<pickVars, cacheVars, estVars, mergeVars, recentVars, runVars, diskVars, searchVars>>

NextFilter == CallFilter

SpecFilter == InitFilter /\ [][NextFilter]_vars

-----------------------------------------------------------------------------
(* Specification SpecPick: weighted_random_pick applied to bounded inputs *)

MaxCands == 3
MaxCount == 2

\* Candidates with rating 0, 3, 5 or no rating
PickPlaces ==
    { [id |-> "a", rating |-> 0],
      [id |-> "b", rating |-> 0],
      [id |-> "c", rating |-> 5],
      [id |-> "d", rating |-> 3],
      [id |-> "e"] }

InitPick ==
    /\ pArgs \in [ candidates : SeqsUpTo(PickPlaces, MaxCands),
                   count : 0..MaxCount ]
    /\ pRet = [raised |-> FALSE, idx |-> <<>>, selected |-> <<>>]
    /\ pDone = FALSE
    /\ IdleFilter /\ IdleCache /\ IdleEst /\ IdleMerge /\ IdleRecent /\ IdleRun /\ IdleDisk /\ IdleSearch

CallPick ==
    /\ ~pDone
    /\ pDone' = TRUE
    /\ pRet' \in WeightedRandomPick(pArgs.candidates, pArgs.count)
    /\ pArgs' = pArgs
    /\ UNCHANGED <<filterVars, cacheVars, estVars, mergeVars, recentVars, runVars, diskVars, searchVars>>

NextPick == CallPick

SpecPick == InitPick /\ [][NextPick]_vars

-----------------------------------------------------------------------------
(* Specification SpecCache: get_travel_info called repeatedly, as main     *)
(* calls it (with the API key set), on a cache file that may hold entries  *)
(* this code did not write, while the clock advances                       *)

MaxNow == 3

CacheIds == {"a", "b"}

\* cache_expiry_days of a call
ExpiryChoices == {1, 2}

\* straight-line distance of the destination of a call, in metres
CacheDistances == {1000, 12000}

\* what the oracle answers when asked
CacheOracle ==
    { OracleError, OracleRoutes(<<>>),
      OracleRoutes(<<[duration |-> 1200, distanceMeters |-> 10000]>>) }

\* Entries of the file at the start that get_travel_info does not write: a
\* null time, a missing stamp, an unparseable stamp.
ForeignEntries ==
    { [travel_time_minutes |-> Null, travel_cost_yen |-> Null,
       travel_summary |-> <<"estimate", 0>>, cached_at |-> 0],
      [travel_time_minutes |-> 10, travel_cost_yen |-> 0,
       travel_summary |-> <<"walk", 10>>],
      [travel_time_minutes |-> 10, travel_cost_yen |-> 0,
       travel_summary |-> <<"walk", 10>>, cached_at |-> BadStamp] }

InitCache ==
    /\ cacheFile \in
         { [readable |-> FALSE, data |-> EmptyDict] } \cup
         { [readable |-> TRUE, data |-> d] :
             d \in UNION { [D -> ForeignEntries] : D \in SUBSET CacheIds } }
    /\ clock = 0
    /\ ti = NoCall
    /\ IdleFilter /\ IdlePick /\ IdleEst /\ IdleMerge /\ IdleRecent /\ IdleRun /\ IdleDisk /\ IdleSearch

\* time passes
TickCache ==
    /\ clock < MaxNow
    /\ clock' = clock + 1
    /\ UNCHANGED <<cacheFile, ti, filterVars, pickVars, estVars, mergeVars, recentVars, runVars, diskVars, searchVars>>

CallGetTravelInfo ==
    \E place_id \in CacheIds, distance_m \in CacheDistances,
       oracle \in CacheOracle, expiry_days \in ExpiryChoices :
        LET res == GetTravelInfo(cacheFile, place_id, distance_m, TRUE, oracle,
                                 expiry_days, clock)
        IN  /\ ti' = [called |-> TRUE, place_id |-> place_id,
                      distance_m |-> distance_m, expiry_days |-> expiry_days,
                      oracle |-> oracle, now |-> clock, preFile |-> cacheFile, res |-> res]
            /\ cacheFile' = res.file
            /\ UNCHANGED <<clock, filterVars, pickVars, estVars, mergeVars, recentVars, runVars, diskVars, searchVars>>

NextCache == TickCache \/ CallGetTravelInfo

SpecCache == InitCache /\ [][NextCache]_vars

-----------------------------------------------------------------------------
(* Specification SpecMerge: merge_visited_sources applied to bounded stores *)

MaxVisited == 2
MaxRows == 2

MergeIds == {"a", "b"}

\* the contents of the "visited" column
MergeMarks == {"TRUE", "yes", "no", ""}

\* visited.json: missing or malformed, or a list of visited entries
MergeFiles ==
    { [readable |-> FALSE, visited |-> <<>>] } \cup
    { [readable |-> TRUE, visited |-> v] :
        v \in SeqsUpTo([place_id : MergeIds], MaxVisited) }

\* the spreadsheet: unreachable, or its rows
MergeSheets ==
    { [ok |-> FALSE, rows |-> <<>>] } \cup
    { [ok |-> TRUE, rows |-> r] :
        r \in SeqsUpTo([visited : MergeMarks, place_id : MergeIds], MaxRows) }

InitMerge ==
    /\ mArgs \in [ visited_file : MergeFiles, spreadsheet_id : {"", "sheet"},
                   sheet : MergeSheets ]
    /\ mRet = {}
    /\ mDone = FALSE
    /\ IdleFilter /\ IdlePick /\ IdleCache /\ IdleEst /\ IdleRecent /\ IdleRun /\ IdleDisk /\ IdleSearch

CallMergeVisitedSources ==
    /\ ~mDone
    /\ mDone' = TRUE
    /\ mRet' = MergeVisitedSources(mArgs.visited_file, mArgs.spreadsheet_id, mArgs.sheet)
    /\ mArgs' = mArgs
    /\ UNCHANGED <<filterVars, pickVars, cacheVars, estVars, recentVars, runVars, diskVars, searchVars>>

NextMerge == CallMergeVisitedSources

SpecMerge == InitMerge /\ [][NextMerge]_vars

-----------------------------------------------------------------------------
(* Specification SpecRecent: load_recent_history applied to bounded files *)

MaxRecords == 2

\* the time of the call, in days
RecentNow == 70

\* the generated_at of the records: 5 weeks before the call, one day before
\* the 4-week cutoff, on it, one day after it, a week ago, today
RecentStamps == {35, 41, 42, 43, 63, 70}

RecentRestaurants ==
    { <<>>, <<[place_id |-> "a"]>>, <<[place_id |-> "b"]>>,
      <<[place_id |-> "a"], [place_id |-> "c"]>> }

RecentFiles ==
    { [readable |-> FALSE, weeks |-> <<>>] } \cup
    { [readable |-> TRUE, weeks |-> w] :
        w \in SeqsUpTo([generated_at : RecentStamps, restaurants : RecentRestaurants],
                       MaxRecords) }

InitRecent ==
    /\ hArgs \in [ file : RecentFiles, weeks : {1, RecentWeeks}, now : {RecentNow} ]
    /\ hRet = {}
    /\ hDone = FALSE
    /\ IdleFilter /\ IdlePick /\ IdleCache /\ IdleEst /\ IdleMerge /\ IdleRun /\ IdleDisk /\ IdleSearch

CallLoadRecentHistory ==
    /\ ~hDone
    /\ hDone' = TRUE
    /\ hRet' = LoadRecentHistory(hArgs.file, hArgs.weeks, hArgs.now)
    /\ hArgs' = hArgs
    /\ UNCHANGED <<filterVars, pickVars, cacheVars, estVars, mergeVars, runVars, diskVars, searchVars>>

NextRecent == CallLoadRecentHistory

SpecRecent == InitRecent /\ [][NextRecent]_vars

-----------------------------------------------------------------------------
(* Specification SpecTravel: compute_travel_time applied to bounded inputs *)

\* straight-line distances around the walking limit, in metres
TravelDistances == {1000, 1500, 1501, 3500, 12000}

\* driving durations (seconds) and road distances (metres) of a route
TravelDurations == {20, 60, 100, 1200}
TravelRoads == {4000, 5000, 5001, 5640, 10000, 15000, 15010, 30000, 30040}

TravelOracle ==
    { OracleError, OracleRoutes(<<>>), OracleRoutes(<<[duration |-> 1200]>>),
      OracleRoutes(<<[distanceMeters |-> 10000]>>) } \cup
    { OracleRoutes(<<[duration |-> s, distanceMeters |-> m]>>) :
        s \in TravelDurations, m \in TravelRoads }

InitTravel ==
    /\ eArgs \in [ distance_m : TravelDistances, has_key : BOOLEAN,
                   oracle : TravelOracle ]
    /\ eRet = [raised |-> FALSE, called |-> FALSE, value |-> EmptyDict]
    /\ eDone = FALSE
    /\ IdleFilter /\ IdlePick /\ IdleCache /\ IdleMerge /\ IdleRecent /\ IdleRun /\ IdleDisk /\ IdleSearch

CallComputeTravelTime ==
    /\ ~eDone
    /\ eDone' = TRUE
    /\ eRet' = ComputeTravelTime(eArgs.distance_m, eArgs.has_key, eArgs.oracle)
    /\ eArgs' = eArgs
    /\ UNCHANGED <<filterVars, pickVars, cacheVars, mergeVars, recentVars, runVars, diskVars, searchVars>>

NextTravel == CallComputeTravelTime

SpecTravel == InitTravel /\ [][NextTravel]_vars

-----------------------------------------------------------------------------
(* Specification Spec: the weekly pipeline, run_weekly.main, run repeatedly *)
(* on the persisted stores while the clock advances                         *)

MaxRuns == 2
MaxTicks == 3
MaxCandidates == 2

\* the clock advances in steps of this many days
TickDays == 14

\* The places the search can return, in the order the search ranks them.
\* "location" stands for the place's coordinates and holds their
\* straight-line distance from the origin in metres (the value _haversine_km
\* computes for them); the third place comes without coordinates and
\* without a rating.
Catalogue ==
    << [id |-> "a", rating |-> 5, userRatingCount |-> 120, location |-> 1500],
       [id |-> "b", rating |-> 0, userRatingCount |-> 120, location |-> 1501],
       [id |-> "c", userRatingCount |-> 60] >>

\* config.yaml
ConfigChoices ==
    { [min_reviews |-> 50, max_travel_minutes |-> 90, pick_count |-> 1,
       expiry_days |-> 14, spreadsheet_id |-> "sheet"],
      [min_reviews |-> 100, max_travel_minutes |-> 25, pick_count |-> 2,
       expiry_days |-> 14, spreadsheet_id |-> ""] }

\* what reading the spreadsheet gives
SheetOutcomes ==
    { [ok |-> FALSE, rows |-> <<>>],
      [ok |-> TRUE, rows |-> << [visited |-> "TRUE", place_id |-> "b"],
                                [visited |-> "", place_id |-> "c"] >>] }

\* authenticate (sheets_client.py) raises FileNotFoundError without the
\* credentials, and get_visited_from_sheet catches it like any other failure
SheetRead(has_credentials) ==
    IF has_credentials THEN SheetOutcomes
    ELSE { [ok |-> FALSE, rows |-> <<>>] }

\* whether a sink call went through: authenticate and _get_gmail_credentials
\* raise without the credentials, inside the try of the sink
SinkOutcomes(has_credentials) ==
    IF has_credentials THEN BOOLEAN ELSE { FALSE }

\* what the routing oracle answers when asked
RunOracle ==
    { OracleError, OracleRoutes(<<>>),
      OracleRoutes(<<[duration |-> 1200, distanceMeters |-> 10000]>>) }

\* the places of the catalogue at the positions in P, in catalogue order
RECURSIVE Ranked(_, _)
Ranked(P, i) ==
    IF i > Len(Catalogue) THEN <<>>
    ELSE (IF i \in P THEN <<Catalogue[i]>> ELSE <<>>) \o Ranked(P, i + 1)

\* search_all_restaurants: when the first page of the first query fails,
\* the loop breaks with places never bound and the log line after the loop
\* (len(places)) raises out of the function; without the API key that is
\* every call, as search_restaurants raises in _headers. Otherwise the result
\* is a list of places with non-empty, pairwise distinct ids.
SearchOutcomes(has_key) ==
    { [raised |-> TRUE, places |-> <<>>] } \cup
    IF ~has_key THEN { }
    ELSE { [raised |-> FALSE, places |-> Ranked(P, 1)] :
              P \in { Q \in SUBSET DOMAIN Catalogue :
                         Cardinality(Q) <= MaxCandidates } }

InitRun ==
    /\ apiKey \in BOOLEAN
    /\ credentials \in BOOLEAN
    /\ cfg \in ConfigChoices
    /\ visitedFile \in { [readable |-> FALSE, visited |-> <<>>],
                         [readable |-> TRUE, visited |-> <<[place_id |-> "a"]>>] }
    /\ historyFile = [readable |-> FALSE, weeks |-> <<>>]
    /\ archiveFile = [readable |-> FALSE, weeks |-> <<>>]
    /\ currentFile = NoCurrent
    /\ historyWritten = <<>>
    /\ cacheFile = [readable |-> FALSE, data |-> EmptyDict]
    /\ clock = 0
    /\ ti = NoCall
    /\ pc = "idle"
    /\ runs = 0
    /\ exit = "none"
    /\ startedAt = 0
    /\ loadedAt = 0
    /\ sinks = NoSinks
    /\ storesAtStart = NoStores
    /\ NoLocals
    /\ IdleFilter /\ IdlePick /\ IdleEst /\ IdleMerge /\ IdleRecent /\ IdleDisk /\ IdleSearch

Init == InitRun

others == <<filterVars, pickVars, estVars, mergeVars, recentVars, diskVars, searchVars>>

\* a run ends: main returns or an exception leaves it
EndRun(how) ==
    /\ pc' = "idle"
    /\ exit' = how
    /\ main_visited_ids' = {}
    /\ main_recent_ids' = {}
    /\ main_candidates' = <<>>
    /\ main_travel_data' = EmptyDict
    /\ main_idx' = 0
    /\ main_filtered' = <<>>
    /\ main_selected' = <<>>
    /\ main_generated_at' = 0
    /\ startedAt' = 0
    /\ loadedAt' = 0
    /\ storesAtStart' = storesAtStart
    /\ ti' = NoCall

\* Time passes in whole ticks: between runs, and within a run before it
\* loads the history (while it reads the visited sources) and between the
\* stamping of the result and its recording.  The travel estimates of a run
\* are taken in the tick in which the history was loaded.
Tick ==
    /\ pc \in {"idle", "recent", "record"}
    /\ clock + TickDays <= MaxTicks * TickDays
    /\ clock' = clock + TickDays
    /\ UNCHANGED <<cacheFile, ti, runVars, others>>

\* main is started (step 1)
StartRun ==
    /\ pc = "idle"
    /\ runs < MaxRuns
    /\ runs' = runs + 1
    /\ pc' = "visited"
    /\ exit' = "none"
    /\ startedAt' = clock
    /\ sinks' = NoSinks
    /\ storesAtStart' = [history |-> historyFile, archive |-> archiveFile,
                         current |-> currentFile]
    /\ UNCHANGED <<loadedAt, localVars, envVars, storeVars, cacheVars, others>>

\* step 2, merge_visited_sources
LoadVisited ==
    /\ pc = "visited"
    /\ \E sheet \in SheetRead(credentials) :
          main_visited_ids' =
              MergeVisitedSources(visitedFile, cfg.spreadsheet_id, sheet)
    /\ pc' = "recent"
    /\ UNCHANGED <<main_recent_ids, main_candidates, main_travel_data, main_idx, main_filtered, main_selected, main_generated_at>>
    /\ UNCHANGED <<sinks, storesAtStart, runs, exit, startedAt, loadedAt, envVars, storeVars, cacheVars, others>>

\* step 2, load_recent_history(weeks=4)
LoadRecent ==
    /\ pc = "recent"
    /\ main_recent_ids' = LoadRecentHistory(historyFile, RecentWeeks, clock)
    /\ loadedAt' = clock
    /\ pc' = "search"
    /\ UNCHANGED <<main_visited_ids, main_candidates, main_travel_data, main_idx, main_filtered, main_selected, main_generated_at>>
    /\ UNCHANGED <<sinks, storesAtStart, runs, exit, startedAt, envVars, storeVars, cacheVars, others>>

\* step 3, search_all_restaurants: its exception leaves main; return 1 on
\* no candidates
Search ==
    /\ pc = "search"
    /\ \E found \in SearchOutcomes(apiKey) :
          IF found.raised
          THEN EndRun("crash")
          ELSE IF found.places = <<>>
          THEN EndRun("abort")
          ELSE /\ main_candidates' = found.places
               /\ main_idx' = 1
               /\ pc' = "travel"
               /\ UNCHANGED <<main_visited_ids, main_recent_ids, main_travel_data, main_filtered, main_selected, main_generated_at, exit, ti, startedAt, loadedAt, storesAtStart>>
    /\ UNCHANGED <<sinks, runs, envVars, storeVars, cacheFile, clock, others>>

\* step 4 with the try/except of lines 107-117 removed: an exception of
\* get_travel_info leaves main
EstimateOne_NoCatch ==
    /\ pc = "travel"
    /\ main_idx <= Len(main_candidates)
    /\ LET place == main_candidates[main_idx]
           place_id == Get(place, "id", "")
       IN  IF \/ place_id = ""
              \/ "location" \notin DOMAIN place
              \/ place_id \in main_visited_ids
              \/ place_id \in main_recent_ids
           THEN /\ main_idx' = main_idx + 1
                /\ UNCHANGED <<main_travel_data, cacheFile, ti, pc, exit, startedAt, loadedAt>>
                /\ UNCHANGED <<main_visited_ids, main_recent_ids, main_candidates, main_filtered, main_selected, main_generated_at>>
           ELSE \E oracle \in RunOracle :
                  LET res == GetTravelInfo(cacheFile, place_id, place.location,
                                           apiKey, oracle, cfg.expiry_days, clock)
                  IN  /\ cacheFile' = res.file
                      /\ ti' = [called |-> TRUE, place_id |-> place_id,
                                distance_m |-> place.location,
                                expiry_days |-> cfg.expiry_days,
                                oracle |-> oracle, now |-> clock,
                                preFile |-> cacheFile, res |-> res]
                      /\ IF res.path = "raise"
                         THEN /\ pc' = "idle"
                              /\ exit' = "crash"
                              /\ UNCHANGED <<localVars, startedAt, loadedAt>>
                         ELSE /\ main_travel_data' = DictSet(main_travel_data, place_id, res.ret)
                              /\ main_idx' = main_idx + 1
                              /\ UNCHANGED <<pc, exit, startedAt, loadedAt>>
                              /\ UNCHANGED <<main_visited_ids, main_recent_ids, main_candidates, main_filtered, main_selected, main_generated_at>>
    /\ UNCHANGED <<sinks, storesAtStart, runs, envVars, storeVars, clock, others>>

\* step 4, one iteration of the loop over candidates
EstimateOne ==
    /\ pc = "travel"
    /\ main_idx <= Len(main_candidates)
    /\ LET place == main_candidates[main_idx]
           place_id == Get(place, "id", "")
       IN  IF \/ place_id = ""
              \/ "location" \notin DOMAIN place
              \/ place_id \in main_visited_ids
              \/ place_id \in main_recent_ids
           THEN UNCHANGED <<main_travel_data, cacheFile, ti>>
           ELSE \E oracle \in RunOracle :
                  LET res == GetTravelInfo(cacheFile, place_id, place.location,
                                           apiKey, oracle, cfg.expiry_days, clock)
                  IN  /\ ti' = [called |-> TRUE, place_id |-> place_id,
                                distance_m |-> place.location,
                                expiry_days |-> cfg.expiry_days,
                                oracle |-> oracle, now |-> clock,
                                preFile |-> cacheFile, res |-> res]
                      /\ cacheFile' = res.file
                      /\ main_travel_data' =
                            IF res.path = "raise" THEN main_travel_data
                            ELSE DictSet(main_travel_data, place_id, res.ret)
    /\ main_idx' = main_idx + 1
    /\ UNCHANGED <<main_visited_ids, main_recent_ids, main_candidates, main_filtered, main_selected, main_generated_at>>
    /\ UNCHANGED <<sinks, storesAtStart, pc, runs, exit, startedAt, loadedAt, envVars, storeVars, clock, others>>

\* step 5 without the return on an empty list: the run goes on to step 6
FilterStep_NoAbort ==
    /\ pc = "travel"
    /\ main_idx > Len(main_candidates)
    /\ main_filtered' = FilterCandidates(main_candidates, main_visited_ids,
                                         main_recent_ids, cfg.min_reviews,
                                         cfg.max_travel_minutes, main_travel_data)
    /\ pc' = "pick"
    /\ ti' = NoCall
    /\ UNCHANGED <<main_visited_ids, main_recent_ids, main_candidates, main_travel_data, main_idx, main_selected, main_generated_at, exit, startedAt, loadedAt, storesAtStart>>
    /\ UNCHANGED <<sinks, runs, envVars, storeVars, cacheFile, clock, others>>

\* step 5, filter_candidates; return 1 on no candidates left
FilterStep ==
    /\ pc = "travel"
    /\ main_idx > Len(main_candidates)
    /\ LET kept == FilterCandidates(main_candidates, main_visited_ids,
                                    main_recent_ids, cfg.min_reviews,
                                    cfg.max_travel_minutes, main_travel_data)
       IN  IF kept = <<>>
           THEN EndRun("abort")
           ELSE /\ main_filtered' = kept
                /\ pc' = "pick"
                /\ ti' = NoCall
                /\ UNCHANGED <<main_visited_ids, main_recent_ids, main_candidates, main_travel_data, main_idx, main_selected, main_generated_at, exit, startedAt, loadedAt, storesAtStart>>
    /\ UNCHANGED <<sinks, runs, envVars, storeVars, cacheFile, clock, others>>

\* step 6, weighted_random_pick (its ValueError is not caught), and step 7,
\* which builds one restaurant per selected place
PickStep ==
    /\ pc = "pick"
    /\ \E o \in WeightedRandomPick(main_filtered, cfg.pick_count) :
          IF o.raised
          THEN EndRun("crash")
          ELSE /\ main_selected' = o.selected
               /\ pc' = "generate"
               /\ UNCHANGED <<main_visited_ids, main_recent_ids, main_candidates, main_travel_data, main_idx, main_filtered, main_generated_at, exit, ti, startedAt, loadedAt, storesAtStart>>
    /\ UNCHANGED <<sinks, runs, envVars, storeVars, cacheFile, clock, others>>

\* the restaurants of step 7: place_id is place.get("id", "")
Restaurants(places) ==
    [r \in DOMAIN places |-> [place_id |-> Get(places[r], "id", "")]]

\* step 8, generate_current_json: current_data is stamped with the time
Generate ==
    /\ pc = "generate"
    /\ main_generated_at' = clock
    /\ currentFile' = [readable |-> TRUE,
                       data |-> GenerateCurrentJson(Restaurants(main_selected), clock)]
    /\ pc' = "record"
    /\ UNCHANGED <<main_visited_ids, main_recent_ids, main_candidates, main_travel_data, main_idx, main_filtered, main_selected>>
    /\ UNCHANGED <<sinks, storesAtStart, runs, exit, startedAt, loadedAt, envVars, historyFile, archiveFile, historyWritten, cacheVars, others>>

\* step 8, update_archive, update_history, sync_visited_to_frontend
RecordWeek ==
    /\ pc = "record"
    /\ archiveFile' = UpdateArchive(archiveFile, currentFile.data)
    /\ historyFile' = UpdateHistory(historyFile, currentFile.data)
    /\ historyWritten' = <<clock>> \o historyWritten
    /\ pc' = "notify"
    /\ UNCHANGED <<sinks, storesAtStart, currentFile, localVars, runs, exit, startedAt, loadedAt, envVars, cacheVars, others>>

\* step 9 with an exception of the email sink leaving main
SendEmail_Fatal ==
    /\ pc = "notify"
    /\ \E sent \in SinkOutcomes(credentials) :
          IF sent
          THEN /\ sinks' = [sinks EXCEPT !.email = "sent"]
               /\ pc' = "sync"
               /\ UNCHANGED <<localVars, exit, startedAt, loadedAt, ti, storesAtStart>>
          ELSE /\ sinks' = [sinks EXCEPT !.email = "failed"]
               /\ EndRun("crash")
    /\ UNCHANGED <<runs, envVars, storeVars, cacheFile, clock, others>>

\* step 9, send_email: it returns True, or catches its failure and returns
\* False, on which main logs a warning
SendEmail ==
    /\ pc = "notify"
    /\ \E sent \in SinkOutcomes(credentials) :
          sinks' = [sinks EXCEPT !.email = IF sent THEN "sent" ELSE "failed"]
    /\ pc' = "sync"
    /\ UNCHANGED <<localVars, exit, startedAt, loadedAt, ti, storesAtStart>>
    /\ UNCHANGED <<runs, envVars, storeVars, cacheFile, clock, others>>

\* step 10, sync_recommendations_to_sheet when a spreadsheet is configured
\* (it catches its failures), then return 0
SyncSheet ==
    /\ pc = "sync"
    /\ IF cfg.spreadsheet_id # ""
       THEN \E synced \in SinkOutcomes(credentials) :
               sinks' = [sinks EXCEPT !.sheet = IF synced THEN "synced" ELSE "failed"]
       ELSE sinks' = sinks
    /\ EndRun("ok")
    /\ UNCHANGED <<runs, envVars, storeVars, cacheFile, clock, others>>

Next ==
    \/ Tick
    \/ StartRun
    \/ LoadVisited
    \/ LoadRecent
    \/ Search
    \/ EstimateOne
    \/ FilterStep
    \/ PickStep
    \/ Generate
    \/ RecordWeek
    \/ SendEmail
    \/ SyncSheet

Spec == Init /\ [][Next]_vars

-----------------------------------------------------------------------------
(* Specification SpecArchive: step 8 of main repeated week after week on    *)
(* stores that start empty                                                  *)

MaxWeeks == 54

\* an empty store: the file does not exist yet, or holds an empty list
EmptyStores ==
    { [readable |-> FALSE, weeks |-> <<>>], [readable |-> TRUE, weeks |-> <<>>] }

\* the day of the first recording
FirstDays == {0, 1, 2}

InitArchive ==
    /\ archiveFile \in EmptyStores
    /\ historyFile \in EmptyStores
    /\ currentFile = NoCurrent
    /\ historyWritten = <<>>
    /\ clock \in FirstDays
    /\ cacheFile = [readable |-> FALSE, data |-> EmptyDict]
    /\ ti = NoCall
    /\ apiKey = FALSE
    /\ credentials = FALSE
    /\ cfg = [min_reviews |-> 0, max_travel_minutes |-> 0, pick_count |-> 0,
              expiry_days |-> 0, spreadsheet_id |-> ""]
    /\ visitedFile = [readable |-> FALSE, visited |-> <<>>]
    /\ pc = "off"
    /\ runs = 0
    /\ exit = "none"
    /\ startedAt = 0
    /\ loadedAt = 0
    /\ sinks = NoSinks
    /\ storesAtStart = NoStores
    /\ NoLocals
    /\ IdleFilter /\ IdlePick /\ IdleEst /\ IdleMerge /\ IdleRecent /\ IdleDisk /\ IdleSearch

\* generate_current_json, update_archive and update_history for one week's
\* restaurants; the next week's recording happens a week later
RecordOneWeek ==
    /\ Len(historyWritten) < MaxWeeks
    /\ LET current_data == GenerateCurrentJson(<<[place_id |-> "a"]>>, clock)
       IN  /\ currentFile' = [readable |-> TRUE, data |-> current_data]
           /\ archiveFile' = UpdateArchive(archiveFile, current_data)
           /\ historyFile' = UpdateHistory(historyFile, current_data)
    /\ historyWritten' = <<clock>> \o historyWritten
    /\ clock' = clock + DaysPerWeek
    /\ UNCHANGED <<sinks, storesAtStart, cacheFile, ti, envVars, pc, runs, exit, startedAt, loadedAt, localVars, others>>

NextArchive == RecordOneWeek

SpecArchive == InitArchive /\ [][NextArchive]_vars

-----------------------------------------------------------------------------
(* Specification SpecStores: the loaders and writers of the four persisted *)
(* stores applied to files in every condition                              *)

\* the longest week list a store is grown to
MaxStored == 2

\* the time of every call, in days
StoreNow == 70

\* the conditions of a file that is not a well-formed store
BadKinds == {"missing", "syntax", "bytes", "shape"}

\* one week as generate_current_json returns it
StoreWeek == GenerateCurrentJson(<<[place_id |-> "a"]>>, StoreNow)

\* a store file in any condition; contents are the well-formed contents
StoreFiles(empty, contents) ==
    { [kind |-> k, data |-> empty] : k \in BadKinds } \cup
    { [kind |-> "ok", data |-> d] : d \in contents }

InitStores ==
    /\ disk \in [cache : StoreFiles(EmptyDict,
                    { EmptyDict,
                      DictSet(EmptyDict, "b",
                              [travel_time_minutes |-> 10, travel_cost_yen |-> 0,
                               travel_summary |-> <<"walk", 10>>,
                               cached_at |-> StoreNow]) }),
                 history : StoreFiles(<<>>, { <<>>, <<[generated_at |-> 63,
                               restaurants |-> <<[place_id |-> "b"]>>]>> }),
                 archive : StoreFiles(<<>>, { <<>>, <<[generated_at |-> 63,
                               restaurants |-> <<[place_id |-> "b"]>>]>> }),
                 visited : StoreFiles(<<>>, { <<[place_id |-> "b"]>> })]
    /\ dRet = NoOp
    /\ IdleFilter /\ IdlePick /\ IdleCache /\ IdleEst /\ IdleMerge /\ IdleRecent /\ IdleRun /\ IdleSearch

\* the record of an operation on a store
OpRecord(op, store, res) ==
    [done |-> TRUE, op |-> op, store |-> store, pre |-> disk[store],
     raised |-> res.raised, ids |-> res.ids]

CallDiskLoadRecentHistory ==
    LET res == DiskLoadRecentHistory(disk.history, RecentWeeks, StoreNow)
    IN  /\ dRet' = OpRecord("load_recent_history", "history", res)
        /\ disk' = disk
        /\ UNCHANGED <<filterVars, pickVars, cacheVars, estVars, mergeVars, recentVars, runVars, searchVars>>

CallDiskMergeVisitedSources ==
    LET res == DiskMergeVisitedSources(disk.visited)
    IN  /\ dRet' = OpRecord("merge_visited_sources", "visited", res)
        /\ disk' = disk
        /\ UNCHANGED <<filterVars, pickVars, cacheVars, estVars, mergeVars, recentVars, runVars, searchVars>>

CallDiskGetTravelInfo ==
    LET res == DiskGetTravelInfo(disk.cache, "a", 1000, 14, StoreNow)
    IN  /\ dRet' = OpRecord("get_travel_info", "cache", res)
        /\ disk' = [disk EXCEPT !.cache = res.raw]
        /\ UNCHANGED <<filterVars, pickVars, cacheVars, estVars, mergeVars, recentVars, runVars, searchVars>>

CallDiskUpdateArchive ==
    /\ Len(disk.archive.data) < MaxStored
    /\ LET res == DiskUpdateArchive(disk.archive, StoreWeek)
       IN  /\ dRet' = OpRecord("update_archive", "archive", res)
           /\ disk' = [disk EXCEPT !.archive = res.raw]
    /\ UNCHANGED <<filterVars, pickVars, cacheVars, estVars, mergeVars, recentVars, runVars, searchVars>>

CallDiskUpdateHistory ==
    /\ Len(disk.history.data) < MaxStored
    /\ LET res == DiskUpdateHistory(disk.history, StoreWeek)
       IN  /\ dRet' = OpRecord("update_history", "history", res)
           /\ disk' = [disk EXCEPT !.history = res.raw]
    /\ UNCHANGED <<filterVars, pickVars, cacheVars, estVars, mergeVars, recentVars, runVars, searchVars>>

NextStores ==
    \/ CallDiskLoadRecentHistory
    \/ CallDiskMergeVisitedSources
    \/ CallDiskGetTravelInfo
    \/ CallDiskUpdateArchive
    \/ CallDiskUpdateHistory

SpecStores == InitStores /\ [][NextStores]_vars

-----------------------------------------------------------------------------
(* Specification SpecSearch: search_all_restaurants applied to bounded *)
(* sequences of responses                                               *)

\* the number of queries
MaxQueries == 2

\* the values of max_pages_per_query
PageLimits == {1, 2}

\* what one search_restaurants call can do: raise, or answer with places
\* (one without an id, one with an empty id, two with the same id) and with
\* or without a nextPageToken
PageResponses ==
    { [kind |-> "error", places |-> <<>>, next |-> FALSE],
      [kind |-> "ok", places |-> <<>>, next |-> FALSE],
      [kind |-> "ok", places |-> <<[id |-> "a", name |-> "x"]>>, next |-> TRUE],
      [kind |-> "ok", places |-> <<[id |-> "", name |-> "x"], [id |-> "b", name |-> "x"]>>,
       next |-> TRUE],
      [kind |-> "ok", places |-> <<[name |-> "y"], [id |-> "a", name |-> "y"]>>,
       next |-> FALSE],
      [kind |-> "ok", places |-> <<[id |-> "b", name |-> "y"], [id |-> "b", name |-> "x"]>>,
       next |-> FALSE] }

InitSearch ==
    /\ \E queries \in 1..MaxQueries, max_pages \in PageLimits :
          sArgs \in [ responses : [1..queries -> [1..max_pages -> PageResponses]],
                      max_pages_per_query : {max_pages} ]
    /\ sRet = [raised |-> FALSE, places |-> <<>>, requested |-> <<>>]
    /\ sDone = FALSE
    /\ IdleFilter /\ IdlePick /\ IdleCache /\ IdleEst /\ IdleMerge /\ IdleRecent /\ IdleRun /\ IdleDisk

CallSearchAllRestaurants ==
    /\ ~sDone
    /\ sDone' = TRUE
    /\ sRet' = SearchAllRestaurants(sArgs.responses, sArgs.max_pages_per_query)
    /\ sArgs' = sArgs
    /\ UNCHANGED <<filterVars, pickVars, cacheVars, estVars, mergeVars, recentVars, runVars, diskVars>>

NextSearch == CallSearchAllRestaurants

SpecSearch == InitSearch /\ [][NextSearch]_vars

-----------------------------------------------------------------------------
(* Claims about filter_candidates (SpecFilter) *)

\* The retention condition as the specification states it
C1_Retained(place, a) ==
    LET id == Get(place, "id", "")
    IN  /\ id \notin a.visited_ids
        /\ id \notin a.recent_ids
        /\ Get(place, "userRatingCount", 0) >= a.min_reviews
        /\ \/ id \notin DOMAIN a.travel_info
           \/ Get(a.travel_info[id], "travel_time_minutes", Null) = Null
           \/ Get(a.travel_info[id], "travel_time_minutes", Null)
                 <= a.max_travel_minutes

\* C1: filter_candidates returns exactly the subsequence of its input, in
\* input order, of the candidates that are not visited, not recent, have at
\* least min_reviews reviews, and have no travel entry, a null travel time, or
\* a travel time of at most max_travel_minutes.
C1_FilterIsExactSubsequence ==
    fDone =>
        LET Test(place) == C1_Retained(place, fArgs)
        IN  fRet = SelectSeq(fArgs.places, Test)

\* A call that drops one candidate for its travel time and keeps the other
C1_Witness ==
    /\ fDone
    /\ fArgs.places = << [id |-> "a", userRatingCount |-> 50],
                         [id |-> "b", userRatingCount |-> 120] >>
    /\ fArgs.min_reviews = 50
    /\ DOMAIN fArgs.travel_info = {"a", "b"}
    /\ fArgs.travel_info["a"] = [travel_time_minutes |-> 91]
    /\ fArgs.travel_info["b"] = [travel_time_minutes |-> 90]
    /\ fRet = << [id |-> "b", userRatingCount |-> 120] >>

-----------------------------------------------------------------------------
(* Claims about weighted_random_pick (SpecPick) *)

Min(a, b) == IF a <= b THEN a ELSE b

\* the chosen positions are positions of candidates, pairwise distinct, and
\* the returned list holds the candidates at those positions
PickDistinct(ret, candidates) ==
    /\ Len(ret.idx) = Len(ret.selected)
    /\ \A k \in DOMAIN ret.idx :
          /\ ret.idx[k] \in DOMAIN candidates
          /\ ret.selected[k] = candidates[ret.idx[k]]
    /\ \A j, k \in DOMAIN ret.idx : j # k => ret.idx[j] # ret.idx[k]

\* C7: for ratings in [0,5] or absent and count >= 0, every outcome of
\* weighted_random_pick is a list of min(len(candidates), count) candidates
\* taken from pairwise distinct positions of the input.
C7_PickCardinalityDistinct ==
    pDone =>
        /\ ~pRet.raised
        /\ Len(pRet.selected) = Min(Len(pArgs.candidates), pArgs.count)
        /\ PickDistinct(pRet, pArgs.candidates)

\* C8: with more candidates than count and every rating 0, the sampler does
\* not raise and returns count distinct candidates.
C8_ZeroWeightFallback ==
    ( /\ pDone
      /\ Len(pArgs.candidates) > pArgs.count
      /\ \A i \in DOMAIN pArgs.candidates :
            Get(pArgs.candidates[i], "rating", 4) = 0 )
    => /\ ~pRet.raised
       /\ Len(pRet.selected) = pArgs.count
       /\ PickDistinct(pRet, pArgs.candidates)

-----------------------------------------------------------------------------
(* Claims about the travel cache (SpecCache) *)

\* the entry the latest call found under its place_id
TiHadEntry == ti.called /\ ti.place_id \in DOMAIN LoadCache(ti.preFile)
TiEntry == LoadCache(ti.preFile)[ti.place_id]

StampOf(entry) == Get(entry, "cached_at", NoStamp)
Parseable(entry) == StampOf(entry) \notin {NoStamp, BadStamp}

\* valid(entry, expiry_days) at time t as the specification states it
SpecValid(entry, expiry_days, t) ==
    /\ Parseable(entry)
    /\ t - StampOf(entry) < expiry_days
    /\ Get(entry, "travel_time_minutes", Null) # Null

\* C4: an entry with a parseable cached_at is served from the cache iff
\* now - cached_at < expiry_days and its time is not null; so it is never
\* served at a time >= cached_at + expiry_days, nor when its time is null.
C4_ServedIffFreshAndNonNull ==
    /\ (TiHadEntry /\ Parseable(TiEntry)) =>
          ( (ti.res.path = "hit" /\ ti.res.ret = TiEntry)
            <=> ( /\ ti.now - StampOf(TiEntry) < ti.expiry_days
                  /\ Get(TiEntry, "travel_time_minutes", Null) # Null ) )
    /\ \A id \in DOMAIN LoadCache(cacheFile), e \in ExpiryChoices,
          t \in clock..(MaxNow + 2) :
          LET entry == LoadCache(cacheFile)[id]
          IN  ( /\ Parseable(entry)
                /\ \/ t >= StampOf(entry) + e
                   \/ Get(entry, "travel_time_minutes", Null) = Null )
              => CacheLookup(LoadCache(cacheFile), id, e, t) # "hit"

\* A call exactly expiry_days after the stamp of an entry with a time: the
\* entry is recomputed
C4_Witness ==
    /\ TiHadEntry /\ Parseable(TiEntry)
    /\ Get(TiEntry, "travel_time_minutes", Null) # Null
    /\ ti.now - StampOf(TiEntry) = ti.expiry_days
    /\ ti.res.path = "miss"

\* C5: with a valid entry for the destination, get_travel_info returns that
\* entry unchanged, calls neither the estimator nor the oracle, and does not
\* write the cache file.
C5_HitReturnsEntryNoCallNoWrite ==
    (TiHadEntry /\ SpecValid(TiEntry, ti.expiry_days, ti.now)) =>
        /\ ti.res.path = "hit"
        /\ ti.res.ret = TiEntry
        /\ ti.res.est = 0
        /\ ti.res.oracle = 0
        /\ ti.res.writes = 0
        /\ ti.res.file = ti.preFile

\* A hit on an entry stored on an earlier day
C5_Witness ==
    /\ TiHadEntry /\ SpecValid(TiEntry, ti.expiry_days, ti.now)
    /\ ti.now > StampOf(TiEntry)
    /\ ti.res.path = "hit"

\* the estimator ran in the latest call and returned an estimate
TiEstimatorSucceeded == ti.called /\ ti.res.est >= 1 /\ ti.res.path # "raise"

-----------------------------------------------------------------------------
(* Claims about compute_travel_time (SpecTravel) *)

Abs(x) == IF x < 0 THEN -x ELSE x

\* the fare schedule of the specification on a road distance in metres, in
\* thousandths of a yen: 180 up to 5 km, 150 + 15 d up to 15 km,
\* 200 + 12 d up to 30 km, 250 + 10 d beyond
ScheduleMilliYen(distance_m) ==
    IF distance_m <= 5000 THEN 180 * 1000
    ELSE IF distance_m <= 15000 THEN 150 * 1000 + 15 * distance_m
    ELSE IF distance_m <= 30000 THEN 200 * 1000 + 12 * distance_m
    ELSE 250 * 1000 + 10 * distance_m

\* the call returned an estimate computed from a route of the oracle
RouteReturned ==
    /\ eDone
    /\ ~eRet.raised
    /\ eRet.called
    /\ eArgs.oracle.kind = "ok"
    /\ eArgs.oracle.routes # <<>>

\* C10: when the oracle returns a route with driving duration s seconds and
\* road distance d, the estimate has time_minutes = round(s/60 * 1.5) and a
\* cost_yen that is a multiple of 10 and is the schedule value rounded to the
\* nearest 10 yen, i.e. at most 5 yen away from the schedule value.
C10_FareIsScheduleToNearestTen ==
    RouteReturned =>
        LET route == eArgs.oracle.routes[1]
            s == Get(route, "duration", 0)
            d == Get(route, "distanceMeters", 0)
            v == eRet.value
        IN  /\ v.travel_time_minutes = RoundHalfEven(s * 3, 60 * 2)
            /\ v.travel_cost_yen % 10 = 0
            /\ Abs(1000 * v.travel_cost_yen - ScheduleMilliYen(d)) <= 5 * 1000

-----------------------------------------------------------------------------
(* Claims about the weekly pipeline (Spec) *)

IdsOf(places) == { Get(places[k], "id", "") : k \in DOMAIN places }

\* C2: no candidate whose id is in visited_ids or recent_ids appears in the
\* output of filter_candidates, and no run selects a restaurant whose id is
\* in the merged visited set it loaded at its start.
C2_NoVisitedOrRecentSelected ==
    /\ pc \in {"pick", "generate", "record", "notify", "sync"} =>
          IdsOf(main_filtered) \cap (main_visited_ids \cup main_recent_ids) = {}
    /\ pc \in {"generate", "record", "notify", "sync"} =>
          IdsOf(main_selected) \cap main_visited_ids = {}

\* a run selected restaurants although the search offered it a place that is
\* visited or recently recommended, with both sets non-empty
C2_Witness ==
    /\ pc = "generate"
    /\ main_selected # <<>>
    /\ main_visited_ids # {}
    /\ main_recent_ids # {}
    /\ IdsOf(main_candidates) \cap (main_visited_ids \cup main_recent_ids) # {}

\* the ids of the k-th record of the history file
RecordIds(k) ==
    { historyFile.weeks[k].restaurants[r].place_id :
        r \in DOMAIN historyFile.weeks[k].restaurants }

\* the current run has made its selection and has not yet recorded it
SelectionMade == pc \in {"generate", "record"}

\* C3 as stated: if a run recorded the ids S in the history at time t, no
\* later run that starts at t' with t' - t <= 4 weeks selects an id of S.
C3_NoRepeatWithinFourWeeksOfRecording ==
    SelectionMade =>
        \A k \in DOMAIN historyWritten :
            startedAt - historyWritten[k] <= RecentWeeks * DaysPerWeek
                => RecordIds(k) \cap IdsOf(main_selected) = {}

\* C3 amended: the window runs from the generated_at stamp of the record to
\* the moment the later run loads the history: if that run loads the history
\* at most 4 weeks after the stamp of a record, it selects none of its ids.
C3_NoRepeatWithinFourWeeksOfStamp ==
    SelectionMade =>
        \A k \in DOMAIN historyFile.weeks :
            loadedAt - historyFile.weeks[k].generated_at
                    <= RecentWeeks * DaysPerWeek
                => RecordIds(k) \cap IdsOf(main_selected) = {}

\* a later run was offered a place recorded exactly 4 weeks before it loaded
\* the history, and selected some other place
C3_Witness ==
    /\ SelectionMade
    /\ main_selected # <<>>
    /\ \E k \in DOMAIN historyFile.weeks :
          /\ loadedAt - historyFile.weeks[k].generated_at
                = RecentWeeks * DaysPerWeek
          /\ RecordIds(k) \cap IdsOf(main_candidates) # {}

\* C9: an estimate for a straight-line distance of at most 1.5 km has cost 0
\* and the walking time round(distance / 0.08 km per minute) and is made
\* without a call to the routing oracle; an estimate for a longer distance
\* always calls the oracle and is never a walking estimate (it fails, or its
\* cost is a fare or null, never the walking 0).
C9_WalkingThreshold ==
    (ti.called /\ ti.res.est = 1) =>
        IF ti.distance_m <= 1500
        THEN /\ ti.res.path = "miss"
             /\ ti.res.oracle = 0
             /\ ti.res.ret.travel_cost_yen = 0
             /\ ti.res.ret.travel_time_minutes = RoundHalfEven(ti.distance_m, 80)
             /\ ti.res.ret.travel_summary[1] = "walk"
        ELSE /\ ti.res.oracle = 1
             /\ \/ ti.res.path = "raise"
                \/ /\ ti.res.ret.travel_cost_yen # 0
                   /\ ti.res.ret.travel_summary[1] # "walk"

\* the estimator ran for a place at exactly 1.5 km
C9_Witness ==
    /\ pc = "travel"
    /\ ti.called
    /\ ti.res.est = 1
    /\ ti.distance_m = 1500

-----------------------------------------------------------------------------
(* Claims about the fallback of compute_travel_time (SpecTravel) *)

\* the oracle was asked and answered successfully with no route
NoRouteAnswered ==
    /\ eDone
    /\ eArgs.distance_m > 1500
    /\ eArgs.has_key
    /\ eArgs.oracle.kind = "ok"
    /\ eArgs.oracle.routes = <<>>

\* C11: when the distance is above 1.5 km and the oracle answers with no
\* route, the estimator does not raise and returns
\* time_minutes = round(distance_km * 3) from the straight-line distance,
\* cost_yen = null and a summary marked as an estimate.
C11_FallbackEstimate ==
    NoRouteAnswered =>
        /\ ~eRet.raised
        /\ eRet.called
        /\ eRet.value.travel_time_minutes = RoundHalfEven(3 * eArgs.distance_m, 1000)
        /\ eRet.value.travel_cost_yen = Null
        /\ eRet.value.travel_summary[1] = "estimate"

\* the fallback was taken at 3.5 km, where distance_km * 3 is a tie (10.5)
C11_Witness ==
    /\ NoRouteAnswered
    /\ eArgs.distance_m = 3500
    /\ eRet.value.travel_time_minutes = 10

-----------------------------------------------------------------------------
(* Claims about failures of the travel estimation (Spec) *)

\* the last get_travel_info of the run missed the cache, asked the routing
\* oracle, and the oracle failed
OracleFailed ==
    /\ ti.called
    /\ ti.res.est = 1
    /\ ti.res.oracle = 1
    /\ ti.oracle.kind = "error"

\* C12: if the routing oracle fails for a candidate on a cache miss, the
\* failure propagates out of get_travel_info with the persisted cache left
\* unchanged and no entry written for that destination, and the run is not
\* aborted: it is still in the estimation loop, past that candidate, from
\* where it goes on to the remaining candidates, filtering and selection.
C12_OracleFailureSkipsCandidate ==
    OracleFailed =>
        /\ ti.res.path = "raise"
        /\ ti.res.writes = 0
        /\ ti.res.file = ti.preFile
        /\ cacheFile = ti.preFile
        /\ ti.place_id \notin DOMAIN main_travel_data
        /\ pc = "travel"
        /\ exit = "none"
        /\ main_idx > 1
        /\ \E k \in 1..(main_idx - 1) : Get(main_candidates[k], "id", "") = ti.place_id

\* the oracle failed for a candidate that was not the last one of the list
C12_Witness ==
    /\ OracleFailed
    /\ pc = "travel"
    /\ main_idx <= Len(main_candidates)

\* the ids of the candidates whose get_travel_info raised in this run: the
\* loop has passed them, it did not skip them, and travel_data has no entry
EstimationFailedIds ==
    { Get(main_candidates[k], "id", "") :
        k \in { j \in DOMAIN main_candidates :
                  /\ j < main_idx
                  /\ Get(main_candidates[j], "id", "") # ""
                  /\ "location" \in DOMAIN main_candidates[j]
                  /\ Get(main_candidates[j], "id", "") \notin main_visited_ids \cup main_recent_ids
                  /\ Get(main_candidates[j], "id", "") \notin DOMAIN main_travel_data } }

\* C13: a candidate whose travel estimation failed in a run is skipped for
\* that run: it is not among the restaurants the run selects, nor among those
\* it records in the history.
C13_FailedEstimationNotSelected ==
    /\ pc \in {"generate", "record", "notify", "sync"} =>
          EstimationFailedIds \cap IdsOf(main_selected) = {}
    /\ pc = "notify" =>
          EstimationFailedIds \cap RecordIds(1) = {}

-----------------------------------------------------------------------------
(* Claims about cache entries with a bad stamp (SpecCache) *)

\* C14: a cache entry whose cached_at is missing or not parseable is treated
\* as invalid without failing: get_travel_info does not serve it, it runs the
\* estimator, and when the estimator returns the entry is overwritten by the
\* fresh estimate stamped now.
C14_BadStampRecomputed ==
    (TiHadEntry /\ ~Parseable(TiEntry)) =>
        /\ ti.res.path # "hit"
        /\ ti.res.est = 1
        /\ ti.res.path = "miss" =>
              StampOf(LoadCache(ti.res.file)[ti.place_id]) = ti.now

\* the half of C14 that holds: an entry with a missing stamp is recomputed
C14_MissingStampRecomputed ==
    (TiHadEntry /\ StampOf(TiEntry) = NoStamp) =>
        /\ ti.res.path # "hit"
        /\ ti.res.est = 1
        /\ ti.res.path = "miss" =>
              StampOf(LoadCache(ti.res.file)[ti.place_id]) = ti.now

-----------------------------------------------------------------------------
(* Claims about merge_visited_sources (SpecMerge) *)

\* the ids of the local store, none when the file cannot be read
LocalStoreIds(file) ==
    IF file.readable THEN { file.visited[k].place_id : k \in DOMAIN file.visited }
    ELSE {}

\* the ids the sheet marks as visited, none when it is not configured or
\* cannot be read
SheetVisitedIds(spreadsheet_id, sheet) ==
    IF spreadsheet_id = "" \/ ~sheet.ok THEN {}
    ELSE { sheet.rows[k].place_id :
             k \in { j \in DOMAIN sheet.rows :
                       sheet.rows[j].visited \in {"TRUE", "true", "YES", "yes", "1", "(circle)"} } }

\* a local store holding the entries the sheet marks visited, and a sheet
\* holding the entries of the local store, all marked
IsMarked(row) == row.visited \in {"TRUE", "true", "YES", "yes", "1", "(circle)"}
SheetAsFile(sheet) ==
    [readable |-> sheet.ok,
     visited |-> LET marked == SelectSeq(sheet.rows, IsMarked)
                 IN  [k \in DOMAIN marked |-> [place_id |-> marked[k].place_id]]]
FileAsSheet(file) ==
    [ok |-> file.readable,
     rows |-> [k \in DOMAIN file.visited |->
                  [visited |-> "TRUE", place_id |-> file.visited[k].place_id]]]

\* C15: the set returned by merge_visited_sources is exactly the union of the
\* local store's ids and the sheet's visited ids; merging a store with itself
\* gives what merging it with an empty store gives; exchanging the two
\* sources gives the same set; and when the sheet cannot be read the result
\* is the local-only set.
C15_MergeIsUnion ==
    mDone =>
        /\ mRet = LocalStoreIds(mArgs.visited_file)
                    \cup SheetVisitedIds(mArgs.spreadsheet_id, mArgs.sheet)
        /\ MergeVisitedSources(mArgs.visited_file, "sheet", FileAsSheet(mArgs.visited_file))
             = MergeVisitedSources(mArgs.visited_file, "sheet", [ok |-> TRUE, rows |-> <<>>])
        /\ mArgs.spreadsheet_id # "" =>
              MergeVisitedSources(SheetAsFile(mArgs.sheet), "sheet", FileAsSheet(mArgs.visited_file)) = mRet
        /\ ~mArgs.sheet.ok => mRet = LocalStoreIds(mArgs.visited_file)

\* a merge of a local entry with a sheet that marks the same id (in lower
\* case) and carries another id unmarked
C15_Witness ==
    /\ mDone
    /\ mArgs.spreadsheet_id # ""
    /\ mArgs.visited_file = [readable |-> TRUE, visited |-> <<[place_id |-> "a"]>>]
    /\ mArgs.sheet = [ok |-> TRUE, rows |-> << [visited |-> "yes", place_id |-> "a"],
                                              [visited |-> "no", place_id |-> "b"] >>]
    /\ mRet = {"a"}

-----------------------------------------------------------------------------
(* Claims about load_recent_history (SpecRecent) *)

\* the k-th record of the file read is inside the trailing window
InWindow(k) ==
    hArgs.file.weeks[k].generated_at >= hArgs.now - hArgs.weeks * 7

\* C16: load_recent_history(weeks) returns exactly the ids of the records
\* whose generated_at >= now - weeks * 7 days: an id is returned iff a record
\* on or after the cutoff carries it; a single record dated 5 weeks ago with
\* weeks = 4 gives none of its ids.
C16_RecentIsWindowUnion ==
    hDone =>
        /\ \A id \in {"a", "b", "c"} :
              id \in hRet <=>
                 \E k \in DOMAIN hArgs.file.weeks :
                    /\ InWindow(k)
                    /\ \E r \in DOMAIN hArgs.file.weeks[k].restaurants :
                          hArgs.file.weeks[k].restaurants[r].place_id = id
        /\ hRet \subseteq {"a", "b", "c"}
        /\ ( /\ hArgs.weeks = 4
             /\ Len(hArgs.file.weeks) = 1
             /\ hArgs.now - hArgs.file.weeks[1].generated_at = 5 * 7 ) => hRet = {}

\* a file with one record exactly on the 4-week cutoff and one a day older,
\* read with weeks = 4: only the first contributes
C16_Witness ==
    /\ hDone
    /\ hArgs.weeks = 4
    /\ hArgs.file.weeks = << [generated_at |-> 42, restaurants |-> <<[place_id |-> "a"], [place_id |-> "c"]>>],
                             [generated_at |-> 41, restaurants |-> <<[place_id |-> "b"]>>] >>
    /\ hRet = {"a", "c"}

-----------------------------------------------------------------------------
(* Claims about the archive and the history (SpecArchive) *)

\* the number of record_week operations so far
Recorded == Len(historyWritten)

\* C17: after k record_week operations from empty stores the archive holds
\* exactly the min(k, 52) most recently recorded weeks, newest first, never
\* more than 52, and the history holds all k records, newest first.
C17_ArchiveRollsHistoryGrows ==
    Recorded >= 1 =>
        /\ archiveFile.readable /\ historyFile.readable
        /\ Len(archiveFile.weeks) = Min(Recorded, 52)
        /\ Len(archiveFile.weeks) <= 52
        /\ \A i \in 1..Len(archiveFile.weeks) :
              archiveFile.weeks[i].generated_at = historyWritten[i]
        /\ Len(historyFile.weeks) = Recorded
        /\ \A i \in 1..Recorded :
              historyFile.weeks[i].generated_at = historyWritten[i]

\* 54 weeks recorded: the two oldest have left the archive
C17_Witness ==
    /\ Recorded = 54
    /\ Len(archiveFile.weeks) = 52
    /\ archiveFile.weeks[52].generated_at = historyWritten[52]
    /\ Len(historyFile.weeks) = 54

-----------------------------------------------------------------------------
(* Claims about the runs that end without a selection (Spec) *)

\* history, archive and current.json are as the run found them
StoresAsAtStart ==
    /\ historyFile = storesAtStart.history
    /\ archiveFile = storesAtStart.archive
    /\ currentFile = storesAtStart.current

\* C18: a run that ends with zero candidates after search or after filtering
\* exits non-zero and leaves current.json, the archive and the history
\* exactly as before the run (only the travel cache may have changed): a run
\* goes past step 3 and past step 5 only with a non-empty list, it writes
\* nothing to these stores before the selection is made, and an aborted run
\* has written nothing to them.
C18_AbortLeavesStores ==
    /\ pc \in {"travel", "pick", "generate", "record", "notify", "sync"} =>
          main_candidates # <<>>
    /\ pc \in {"pick", "generate", "record", "notify", "sync"} => main_filtered # <<>>
    /\ pc \in {"visited", "recent", "search", "travel", "pick", "generate"} =>
          StoresAsAtStart
    /\ (pc = "idle" /\ exit = "abort") => StoresAsAtStart

\* a second run, after a recorded first one, ended with nothing left after
\* filtering and updated the travel cache on the way
C18_Witness ==
    /\ pc = "idle"
    /\ exit = "abort"
    /\ runs = 2
    /\ Len(historyFile.weeks) = 1
    /\ apiKey
    /\ \E id \in DOMAIN LoadCache(cacheFile) :
          StampOf(LoadCache(cacheFile)[id]) > historyFile.weeks[1].generated_at

-----------------------------------------------------------------------------
(* Claims about the notification and spreadsheet sinks (Spec) *)

\* the run's own week is at the head of the archive and of the history, and
\* current.json holds it
OwnWeekRecorded ==
    /\ currentFile.readable
    /\ archiveFile.readable /\ archiveFile.weeks # <<>>
    /\ archiveFile.weeks[1] = currentFile.data
    /\ historyFile.readable /\ historyFile.weeks # <<>>
    /\ historyFile.weeks[1].generated_at = currentFile.data.generated_at
    /\ { historyFile.weeks[1].restaurants[r].place_id :
           r \in DOMAIN historyFile.weeks[1].restaurants }
         = { currentFile.data.restaurants[r].place_id :
               r \in DOMAIN currentFile.data.restaurants }

\* C19: a failure of the email sink or of the spreadsheet sink never prevents
\* or undoes the run's own state updates: history and archive are written
\* before either sink is invoked, they stay written afterwards, and a run in
\* which a sink failed still completes with exit code 0.
C19_SinkFailuresNotFatal ==
    /\ pc \in {"visited", "recent", "search", "travel", "pick", "generate", "record", "notify"} =>
          sinks = NoSinks
    /\ pc \in {"notify", "sync"} => OwnWeekRecorded
    /\ (pc = "idle" /\ sinks # NoSinks) => (exit = "ok" /\ OwnWeekRecorded)
    /\ (sinks.email = "failed" \/ sinks.sheet = "failed") =>
          (pc = "sync" \/ (pc = "idle" /\ exit = "ok"))

\* a run completed although both the email and the sheet sync failed
C19_Witness ==
    /\ pc = "idle"
    /\ exit = "ok"
    /\ sinks = [email |-> "failed", sheet |-> "failed"]
    /\ OwnWeekRecorded

-----------------------------------------------------------------------------
(* Claims about configuration errors (Spec) *)

\* the run is still before step 3's result and has not succeeded
BeforeSearchResult == pc \in {"idle", "visited", "recent", "search"} /\ exit # "ok"

\* C20: a configuration error (the API key or the credentials missing) is
\* fatal at startup: the run never gets past the search, never estimates,
\* filters or selects, and never completes with exit 0.
C20_ConfigErrorFatal ==
    (~apiKey \/ ~credentials) => BeforeSearchResult

\* the half of C20 that holds: without the API key no run gets a candidate,
\* and every run ends at step 3 without exit 0
C20_MissingKeyNeverSucceeds ==
    ~apiKey => BeforeSearchResult

-----------------------------------------------------------------------------
(* Claims about missing and malformed stores (SpecStores) *)

\* the operations that write their store
StoreWriters == {"get_travel_info", "update_archive", "update_history"}

\* the store holds exactly what one write puts into an empty store
RecreatedFromEmpty(store) ==
    /\ disk[store].kind = "ok"
    /\ IF store = "cache" THEN DOMAIN disk.cache.data = {"a"}
       ELSE /\ Len(disk[store].data) = 1
            /\ disk[store].data[1].generated_at = StoreNow

\* the operation treated the file it found as the empty store: nothing was
\* raised, a loader returned no ids (get_travel_info found no entry and
\* returned a fresh estimate), and a writer re-created the store
TreatedAsEmpty ==
    /\ ~dRet.raised
    /\ dRet.op \in {"load_recent_history", "merge_visited_sources"} => dRet.ids = {}
    /\ dRet.op = "get_travel_info" => dRet.ids = {"a"}
    /\ dRet.op \in StoreWriters => RecreatedFromEmpty(dRet.store)

\* C21: a missing or malformed persisted store never crashes the run:
\* reading it yields the empty store, and the next write re-creates the store
\* from that empty state.
C21_BadStoreTreatedAsEmpty ==
    (dRet.done /\ dRet.pre.kind \in BadKinds) => TreatedAsEmpty

\* the half of C21 that holds: a file that is missing or is not JSON text
C21_MissingOrNotJsonTreatedAsEmpty ==
    (dRet.done /\ dRet.pre.kind \in {"missing", "syntax"}) => TreatedAsEmpty

-----------------------------------------------------------------------------
(* Claims about the walking estimate (SpecTravel) *)

\* n / d rounded to the nearest integer, a half rounded up
RoundHalfUp(n, d) == (2 * n + d) \div (2 * d)

\* C22: for a destination exactly 1.0 km from the origin the estimate is 13
\* minutes at cost 0: the walking time is distance_km / 0.08 rounded to the
\* nearest minute with a half minute rounded up.
C22_WalkMinutesHalfUp ==
    (eDone /\ IsWalkable(eArgs.distance_m)) =>
        /\ ~eRet.raised
        /\ eRet.value.travel_cost_yen = 0
        /\ eRet.value.travel_time_minutes = RoundHalfUp(eArgs.distance_m, 80)
        /\ eArgs.distance_m = 1000 => eRet.value.travel_time_minutes = 13

\* what does hold at 1.0 km: cost 0 and round(12.5) = 12 minutes
C22_OneKilometreIsTwelveMinutes ==
    (eDone /\ eArgs.distance_m = 1000) =>
        /\ ~eRet.raised
        /\ eRet.value.travel_cost_yen = 0
        /\ eRet.value.travel_time_minutes = 12

-----------------------------------------------------------------------------
(* Claims about search_all_restaurants (SpecSearch) *)

\* page p of query q is requested: every page before it answered with a
\* nextPageToken
PageRequested(q, p) ==
    /\ p <= sArgs.max_pages_per_query
    /\ \A j \in 1..(p - 1) :
          sArgs.responses[q][j].kind = "ok" /\ sArgs.responses[q][j].next

\* the places with a non-empty id on the answered pages, as <<q, p, k>>
Occurrences ==
    { o \in (DOMAIN sArgs.responses) \X (1..sArgs.max_pages_per_query) \X (1..2) :
        /\ PageRequested(o[1], o[2])
        /\ sArgs.responses[o[1]][o[2]].kind = "ok"
        /\ o[3] \in DOMAIN sArgs.responses[o[1]][o[2]].places
        /\ Get(sArgs.responses[o[1]][o[2]].places[o[3]], "id", "") # "" }

PlaceAt(o) == sArgs.responses[o[1]][o[2]].places[o[3]]

\* o1 comes before o2 in the order of queries, pages and places
Earlier(o1, o2) ==
    \/ o1[1] < o2[1]
    \/ o1[1] = o2[1] /\ o1[2] < o2[2]
    \/ o1[1] = o2[1] /\ o1[2] = o2[2] /\ o1[3] < o2[3]

\* the first occurrence of each id
FirstOccurrences ==
    { o \in Occurrences :
        \A o2 \in Occurrences : PlaceAt(o2).id = PlaceAt(o).id => ~Earlier(o2, o) }

\* the returned list has no empty and no repeated id, holds exactly the
\* first occurrence of each id in the order of occurrence, and no query was
\* asked for more than max_pages_per_query pages
DeduplicatedSearch ==
    /\ \A i \in DOMAIN sRet.places : Get(sRet.places[i], "id", "") # ""
    /\ \A i, j \in DOMAIN sRet.places :
          i # j => sRet.places[i].id # sRet.places[j].id
    /\ Len(sRet.places) = Cardinality(FirstOccurrences)
    /\ \A o \in FirstOccurrences : \E i \in DOMAIN sRet.places : sRet.places[i] = PlaceAt(o)
    /\ \A o1, o2 \in FirstOccurrences :
          Earlier(o1, o2) =>
              \E i, j \in DOMAIN sRet.places :
                  i < j /\ sRet.places[i] = PlaceAt(o1) /\ sRet.places[j] = PlaceAt(o2)
    /\ Len(sRet.requested) = Len(sArgs.responses)
    /\ \A q \in DOMAIN sRet.requested :
          /\ sRet.requested[q] <= sArgs.max_pages_per_query
          /\ \A p \in 1..sArgs.max_pages_per_query :
                PageRequested(q, p) <=> p <= sRet.requested[q]

\* C23: for any sequence of search responses over all queries and pages,
\* failing pages included (a failure ends that query only),
\* search_all_restaurants returns a list in which no two places share an id
\* and no place has an empty id, each place kept at its first occurrence, and
\* at most max_pages_per_query pages are requested per query.
C23_SearchReturnsDeduplicatedList ==
    sDone => (~sRet.raised /\ DeduplicatedSearch)

\* what does hold: the function raises exactly when the first page of the
\* first query fails, and otherwise returns the de-duplicated list
C23_DeduplicatedUnlessFirstPageFails ==
    sDone =>
        /\ sRet.raised <=> sArgs.responses[1][1].kind = "error"
        /\ ~sRet.raised => DeduplicatedSearch

-----------------------------------------------------------------------------
(* Claims about the entries get_travel_info writes (SpecCache) *)

TimeOf(entry) == Get(entry, "travel_time_minutes", Null)

\* an entry of the file that was not in it at the start: get_travel_info
\* wrote it
WrittenHere(entry) == entry \notin ForeignEntries

\* a later call for the destination of `entry`, at every time from now on
\* and with every expiry and oracle, is served from the cache without the
\* estimator or the oracle exactly while the entry has not expired
ServedUntilExpiry(place_id, entry) ==
    \A later \in clock..(MaxNow + 2), expiry_days \in ExpiryChoices,
       oracle \in CacheOracle, distance_m \in CacheDistances :
        LET res == GetTravelInfo(cacheFile, place_id, distance_m, TRUE, oracle,
                                 expiry_days, later)
        IN  IF later - StampOf(entry) < expiry_days
            THEN /\ res.path = "hit"
                 /\ res.ret = entry
                 /\ res.est = 0 /\ res.oracle = 0 /\ res.writes = 0
            ELSE res.path # "hit"

\* C24: every entry get_travel_info itself writes to the cache has a
\* non-null travel_time_minutes and a cached_at stamp, in the walking, the
\* routed and the fallback branch (null cost); hence a fallback estimate is
\* served from the cache on later calls until it expires, without the oracle
\* being asked again, and the retry-on-null path is only taken for entries
\* this code did not write.
C24_WrittenEntriesAreServable ==
    /\ (ti.called /\ ti.res.writes > 0) =>
          LET written == LoadCache(ti.res.file)[ti.place_id]
          IN  /\ TimeOf(written) # Null
              /\ StampOf(written) = ti.now
              /\ written.travel_summary[1] \in {"walk", "transit", "estimate"}
              /\ written.travel_summary[1] = "estimate" =>
                    written.travel_cost_yen = Null
    /\ \A place_id \in DOMAIN LoadCache(cacheFile) :
          LET entry == LoadCache(cacheFile)[place_id]
          IN  WrittenHere(entry) =>
                 /\ TimeOf(entry) # Null
                 /\ Parseable(entry)
                 /\ ServedUntilExpiry(place_id, entry)
    /\ (TiHadEntry /\ TimeOf(TiEntry) = Null) => ~WrittenHere(TiEntry)

\* a fallback estimate written by an earlier call (stamped after the start)
\* was served from the cache at a later time
C24_Witness ==
    /\ TiHadEntry
    /\ WrittenHere(TiEntry)
    /\ TiEntry.travel_summary[1] = "estimate"
    /\ TiEntry.travel_cost_yen = Null
    /\ StampOf(TiEntry) >= 1
    /\ ti.now > StampOf(TiEntry)
    /\ ti.distance_m > 1500
    /\ ti.res.path = "hit"
    /\ ti.res.oracle = 0

=============================================================================
